---------------------------- MODULE Spec2Model ----------------------------
(***************************************************************************)
(* hdf5pickle (src/hdf5pickle/base.py): a Pickler that writes a Python     *)
(* object graph into a tree of PyTables groups and arrays, and an          *)
(* Unpickler that rebuilds the graph from the tree.                        *)
(*                                                                         *)
(* Conventions of the model                                                *)
(*  - a Python byte string is the sequence of its byte values, a unicode   *)
(*    string the sequence of its code points;                              *)
(*  - a node path '/a/b' is the sequence <<a, b>> of its component names   *)
(*    (names never hold '/': see _checkNameValidity);                      *)
(*  - Python objects live in a heap: an object is a record reached by its  *)
(*    identity (a number), children are identities;                        *)
(*  - the recursion of Pickler._save and Unpickler.load is run one call    *)
(*    per step on an explicit call stack.                                  *)
(***************************************************************************)
EXTENDS Integers, Sequences, FiniteSets, TLC

(***************************************************************************)
(* Bounds of the explored inputs.                                          *)
(***************************************************************************)
MaxSeqLen == 3      \* longest tuple/list of scalars that is dumped
MaxKeys == 3        \* most entries of a dumped dict / instance state
MaxFan == 2         \* most children of the root container of a dumped graph

(***************************************************************************)
(* Strings.                                                                *)
(***************************************************************************)
s_sub == <<95, 95>>                                       \* '__'
s_cls == <<99, 108, 115>>                                 \* 'cls'
s_args == <<97, 114, 103, 115>>                           \* 'args'
s_content == <<99, 111, 110, 116, 101, 110, 116>>         \* 'content'
s_listitems == <<108, 105, 115, 116, 105, 116, 101, 109, 115>>
s_dictitems == <<100, 105, 99, 116, 105, 116, 101, 109, 115>>
s_func == <<102, 117, 110, 99>>                           \* 'func'
s_main == <<95, 95, 109, 97, 105, 110, 95, 95>>           \* '__main__'
s_Cls == <<67, 108, 115>>                                 \* 'Cls'
s_a == <<97>>                                             \* 'a'
s_b == <<98>>                                             \* 'b'
s_obj == <<111, 98, 106>>                                 \* 'obj'

\* "%d" % i
RECURSIVE Digits(_)
Digits(i) == IF i < 10 THEN <<48 + i>> ELSE Digits(i \div 10) \o <<48 + (i % 10)>>

\* "_%d" % i
IdxName(i) == <<95>> \o Digits(i)

\* cmp(a, b) of two byte strings: -1, 0 or 1
RECURSIVE StrCmp(_, _)
StrCmp(a, b) ==
    IF a = <<>> /\ b = <<>> THEN 0
    ELSE IF a = <<>> THEN -1
    ELSE IF b = <<>> THEN 1
    ELSE IF Head(a) < Head(b) THEN -1
    ELSE IF Head(a) > Head(b) THEN 1
    ELSE StrCmp(Tail(a), Tail(b))

IsAlpha(c) == (c >= 97 /\ c <= 122) \/ (c >= 65 /\ c <= 90)
IsDigit(c) == c >= 48 /\ c <= 57

\* pythonIdRE = '^[a-zA-Z_][a-zA-Z0-9_]*$'  ('$' also matches before a
\* trailing newline)
IdBody(s) ==
    /\ Len(s) >= 1
    /\ IsAlpha(s[1]) \/ s[1] = 95
    /\ \A i \in 2..Len(s) : IsAlpha(s[i]) \/ IsDigit(s[i]) \/ s[i] = 95
pythonIdRE(s) ==
    \/ IdBody(s)
    \/ Len(s) >= 2 /\ s[Len(s)] = 10 /\ IdBody(SubSeq(s, 1, Len(s) - 1))

\* reservedIdRE = '^_[cfgv]_'
reservedIdRE(s) ==
    /\ Len(s) >= 3
    /\ s[1] = 95
    /\ s[2] \in {99, 102, 103, 118}
    /\ s[3] = 95

\* keyword.iskeyword
Keywords == {
    <<97, 110, 100>>, <<97, 115>>, <<97, 115, 115, 101, 114, 116>>,   \* and as assert
    <<98, 114, 101, 97, 107>>, <<99, 108, 97, 115, 115>>, <<99, 111, 110, 116, 105, 110, 117, 101>>,   \* break class continue
    <<100, 101, 102>>, <<100, 101, 108>>, <<101, 108, 105, 102>>,   \* def del elif
    <<101, 108, 115, 101>>, <<101, 120, 99, 101, 112, 116>>, <<101, 120, 101, 99>>,   \* else except exec
    <<102, 105, 110, 97, 108, 108, 121>>, <<102, 111, 114>>, <<102, 114, 111, 109>>,   \* finally for from
    <<103, 108, 111, 98, 97, 108>>, <<105, 102>>, <<105, 109, 112, 111, 114, 116>>,   \* global if import
    <<105, 110>>, <<105, 115>>, <<108, 97, 109, 98, 100, 97>>,   \* in is lambda
    <<110, 111, 116>>, <<111, 114>>, <<112, 97, 115, 115>>,   \* not or pass
    <<112, 114, 105, 110, 116>>, <<114, 97, 105, 115, 101>>, <<114, 101, 116, 117, 114, 110>>,   \* print raise return
    <<116, 114, 121>>, <<119, 104, 105, 108, 101>>, <<119, 105, 116, 104>>,   \* try while with
    <<121, 105, 101, 108, 100>>   \* yield
}

\* _checkNameValidity(name) raises nothing (name is a basestring here)
_checkNameValidity(name) ==
    /\ name # <<>>
    /\ name # <<46>>
    /\ \A i \in 1..Len(name) : name[i] # 47
    /\ pythonIdRE(name)
    /\ name \notin Keywords
    /\ ~reservedIdRE(name)

_check_pytables_name(key) == _checkNameValidity(key)

(***************************************************************************)
(* Conversions of the standard library used by the pickler.                *)
(***************************************************************************)
\* pickle.encode_long: two's complement, little endian, shortest form
encode_long(x) ==
    IF x = 0 THEN <<>>
    ELSE IF x > 0
         THEN IF x < 128 THEN <<x>> ELSE <<x % 256, x \div 256>>
         ELSE IF x >= -128 THEN <<x + 256>>
              ELSE <<(x + 65536) % 256, (x + 65536) \div 256>>

\* little-endian value of a byte string
RECURSIVE LEValue(_)
LEValue(s) == IF s = <<>> THEN 0 ELSE Head(s) + 256 * LEValue(Tail(s))

RECURSIVE Pow256(_)
Pow256(n) == IF n = 0 THEN 1 ELSE 256 * Pow256(n - 1)

\* pickle.decode_long
decode_long(data) ==
    IF Len(data) = 0 THEN 0
    ELSE IF data[Len(data)] >= 128 THEN LEValue(data) - Pow256(Len(data))
         ELSE LEValue(data)

\* unicode.encode('utf-8') for code points below 0x800
RECURSIVE utf8_encode(_)
utf8_encode(u) ==
    IF u = <<>> THEN <<>>
    ELSE (IF Head(u) < 128 THEN <<Head(u)>>
          ELSE <<192 + (Head(u) \div 64), 128 + (Head(u) % 64)>>)
         \o utf8_encode(Tail(u))

\* str.decode('utf-8') of well-formed one- and two-byte sequences
RECURSIVE utf8_decode(_)
utf8_decode(s) ==
    IF s = <<>> THEN <<>>
    ELSE IF Head(s) < 128 THEN <<Head(s)>> \o utf8_decode(Tail(s))
    ELSE <<(Head(s) - 192) * 64 + (s[2] - 128)>> \o utf8_decode(Tail(Tail(s)))


(***************************************************************************)
(* Pickle type tags (pickle opcodes and the three tags of base.py).        *)
(***************************************************************************)
NONE == "N"
INT == "I"
LONG == "L"
FLOAT == "F"
T_STRING == "S"      \* STRING (the name is taken in TLA+)
UNICODE == "V"
GLOBAL == "c"
DICT == "d"
INST == "i"
LIST == "l"
TUPLE == "t"
REDUCE == "R"
EXT4 == "x84"        \* the one byte '\x84'
BOOL == "BB"
REF == "RR"
COMPLEX == "CC"

(***************************************************************************)
(* Python objects.  kind is the exact type; num the value of a number,     *)
(* str the bytes / code points of a string or the name of a class, items   *)
(* the elements of a tuple or list or the values of a dict or of an        *)
(* instance __dict__, keys the keys of those values (in iteration order),  *)
(* cls the class of an instance.  The other fields are set for the objects *)
(* that need them: state is the object that __getstate__ or the reduce     *)
(* value gives as state when that is not a mapping (0: the state is the    *)
(* mapping held in keys and items, or there is none); rv names the shape   *)
(* of the value of __reduce_ex__ of an object without a handler in         *)
(* Pickler._dispatch; code is the extension code a class is registered     *)
(* with in copy_reg (0: none); args is the tuple of constructor arguments  *)
(* in the reduce value; found tells whether a class or function is what    *)
(* its module holds under its name.  dt names the shape of the value of    *)
(* the reducer that copy_reg.dispatch_table holds for the type ("": none), *)
(* red that of __reduce__ (consulted when there is no __reduce_ex__, that  *)
(* is when rv is "none"; "": no such method); listitems and dictitems are  *)
(* the objects list(listitems) and dict(dictitems) made from the fourth    *)
(* and fifth element of the reduce value (0: None); meta tells that the    *)
(* type of a class is a metaclass of its own, derived from type.           *)
(***************************************************************************)
PyObj(kind, num, str, items, keys, cls) ==
    [kind |-> kind, num |-> num, str |-> str, items |-> items, keys |-> keys, cls |-> cls,
     state |-> 0, rv |-> "", code |-> 0, args |-> 0, found |-> TRUE,
     dt |-> "", red |-> "", listitems |-> 0, dictitems |-> 0, meta |-> FALSE]

\* value of the field state: the state is the mapping in keys and items
Mapping == -1

Scalar(kind, num) == PyObj(kind, num, <<>>, <<>>, <<>>, 0)
Text(kind, str) == PyObj(kind, 0, str, <<>>, <<>>, 0)

\* The objects every explored heap holds (identity = index).
AtomTable == <<
    Scalar("none", 0),                  \*  1  None
    Scalar("bool", 1),                  \*  2  True
    Scalar("int", 0),                   \*  3  0
    Scalar("int", 1),                   \*  4  1
    Scalar("int", 1),                   \*  5  another int object equal to 1
    Scalar("long", 0),                  \*  6  0L
    Scalar("long", 128),                \*  7  128L   (encodes to '\x80\x00')
    Scalar("long", -129),               \*  8  -129L  (encodes to '\x7f\xff')
    Scalar("float", 5),                 \*  9  5.0
    Scalar("complex", 7),               \* 10  (7+0j)
    Text("str", <<>>),                  \* 11  ''
    Text("str", <<0>>),                 \* 12  '\x00'
    Text("str", s_a),                   \* 13  'a'
    Text("unicode", <<>>),              \* 14  u''
    Text("unicode", <<74, 248>>),       \* 15  u'J\xf8'
    PyObj("tuple", 0, <<>>, <<>>, <<>>, 0),   \* 16  ()  (the one empty tuple)
    Text("class", s_Cls),               \* 17  class Cls, of module __main__
    Text("str", <<97, 98, 98, 97>>),    \* 18  'abba'
    Text("str", <<99, 108, 97, 115, 115>>),   \* 19  'class'
    Text("str", <<63, 63, 33>>),        \* 20  '??!'
    Text("str", <<95, 48>>),            \* 21  '_0'
    Text("str", s_sub),                 \* 22  '__'
    Text("str", <<95, 49>>),            \* 23  '_1'
    Text("str", s_b)                    \* 24  'b'
>>

NAtoms == Len(AtomTable)
EmptyTuple == 16
ClsId == 17

(***************************************************************************)
(* The store: a PyTables file as a map from paths to nodes.                *)
(***************************************************************************)
NoPath == <<>>

Group ==
    [node |-> "Group", pickletype |-> "", target |-> NoPath, empty |-> FALSE,
     has_reduce_content |-> FALSE, dtype |-> "", shape |-> <<>>, data |-> <<>>]

Array(dtype, shape, data) ==
    [node |-> "Array", pickletype |-> "", target |-> NoPath, empty |-> FALSE,
     has_reduce_content |-> FALSE, dtype |-> dtype, shape |-> shape, data |-> data]

\* The argument of save_array: type_ is type(data); elems lists, for a
\* tuple or list, the type and value of each item.
Data(type_, num, str, elems) == [type_ |-> type_, num |-> num, str |-> str, elems |-> elems]

\* variant of save_array_raises without the loop over the items: only the
\* type of the first item decides
save_array_raises_m(d) ==
    IF d.type_ \in {"tuple", "list", "str"}
    THEN /\ d.type_ \in {"tuple", "list"}
         /\ Len(d.elems) # 0
         /\ d.elems[1].type_ \notin {"int", "float", "complex"}
    ELSE d.type_ \notin {"int", "float", "complex", "long"}

\* save_array raises TypeError
save_array_raises(d) ==
    IF d.type_ \in {"tuple", "list", "str"}
    THEN /\ d.type_ \in {"tuple", "list"}
         /\ Len(d.elems) # 0
         /\ \/ d.elems[1].type_ \notin {"int", "float", "complex"}
            \/ \E i \in 1..Len(d.elems) : d.elems[i].type_ # d.elems[1].type_
    ELSE d.type_ \notin {"int", "float", "complex", "long"}

\* the array save_array creates when it does not raise
save_array(d) ==
    IF d.type_ \in {"tuple", "list", "str"}
    THEN IF (IF d.type_ = "str" THEN Len(d.str) ELSE Len(d.elems)) = 0
         THEN [Array("int8", <<1>>, <<0>>) EXCEPT !.empty = TRUE]
         ELSE IF d.type_ = "str"
              THEN Array("uint8", <<Len(d.str)>>, d.str)
              ELSE Array(d.elems[1].type_, <<Len(d.elems)>>,
                         [i \in 1..Len(d.elems) |-> d.elems[i].num])
    ELSE IF d.type_ \in {"int", "float", "complex"}
         THEN Array(d.type_, <<>>, <<d.num>>)
         ELSE Array("object", <<>>, <<d.num>>)

set_attr_pickletype(n, value) == [n EXCEPT !.pickletype = value]

has_path(st, path) == path \in DOMAIN st

\* what getNode gives when there is no node at the path: get_path raises
\* NoSuchNodeError
NoNode == [node |-> "", pickletype |-> "", target |-> NoPath, empty |-> FALSE,
           has_reduce_content |-> FALSE, dtype |-> "", shape |-> <<>>, data |-> <<>>]

\* variant of get_path that gives the node of a None where there is none
get_path_m(st, path) ==
    IF path \in DOMAIN st THEN st[path]
    ELSE [NoNode EXCEPT !.node = "Array", !.pickletype = "N", !.dtype = "int", !.data = <<0>>]

get_path(st, path) == IF path \in DOMAIN st THEN st[path] ELSE NoNode


(***************************************************************************)
(* State.                                                                  *)
(***************************************************************************)
VARIABLES
    objs,       \* the containers of the dumped object graph: identity -> object
    batch,      \* TRUE: dump_many / load_many; FALSE: one dump / load call per entry
    desc,       \* the (path, obj) entries still to dump
    loads,      \* the paths still to load
    store,      \* the file: path -> node
    paths,      \* Pickler.paths: identity -> path of the first encounter
    stack,      \* the pending calls of the running dump, innermost first
    calls,      \* history: the _save calls made so far, [path, obj, ref]
    memo,       \* Unpickler.memo: path -> loaded object
    dheap,      \* the objects built by the Unpickler: identity -> object
    lstack,     \* the frames of the running load, innermost first
    ret,        \* the value returned by the load call that finished last
    result,     \* the (path, obj) pairs returned to the caller of load
    order,      \* the iteration order of a node's _v_children: "asc" or "desc"
    err,        \* the exception that ended the run, "" if none
    extension_cache,   \* copy_reg._extension_cache: the codes resolved so far
    env,        \* what the caller and other programs do around dump and load
    faults,     \* the changes another writer has made to the file
    failed      \* history: the dump and load calls that raised and whose
                \* caller went on, [path, left]

vars == <<objs, batch, desc, loads, store, paths, stack, calls,
          memo, dheap, lstack, ret, result, order, err,
          extension_cache, env, faults, failed>>

Obj(id) == IF id <= NAtoms THEN AtomTable[id] ELSE objs[id]

\* f with f[k] set to v (k need not be in the domain)
Put(f, k, v) == [x \in DOMAIN f \cup {k} |-> IF x = k THEN v ELSE f[x]]

EmptyMap == [x \in {} |-> 0]

(***************************************************************************)
(* Pickler.                                                                *)
(***************************************************************************)
SaveTask(path, obj) == [op |-> "save", path |-> path, obj |-> obj, value |-> ""]
GroupTask(path) == [op |-> "new_group", path |-> path, obj |-> 0, value |-> ""]
AttrTask(path, value) == [op |-> "set_attr", path |-> path, obj |-> 0, value |-> value]
\* set_attr(group, 'has_reduce_content', 1)
ContentAttrTask(path) == [op |-> "set_attr", path |-> path, obj |-> 0, value |-> "has_reduce_content"]

Leaf(st, path, d, pickletype) ==
    [store |-> Put(st, path, set_attr_pickletype(save_array(d), pickletype)),
     push |-> <<>>]

new_group(st, path) == Put(st, path, Group)

\* variant of _save_ref that leaves out the pickletype
_save_ref_m(st, path, objpath) ==
    Put(st, path, [Group EXCEPT !.target = objpath])

_save_ref(st, path, objpath) ==
    Put(st, path, [Group EXCEPT !.target = objpath, !.pickletype = REF])

_save_none(st, path, obj) == Leaf(st, path, Data("int", 0, <<>>, <<>>), NONE)

_save_bool(st, path, obj) == Leaf(st, path, Data("int", Obj(obj).num, <<>>, <<>>), BOOL)

_save_int(st, path, obj) == Leaf(st, path, Data("int", Obj(obj).num, <<>>, <<>>), INT)

_save_long(st, path, obj) ==
    Leaf(st, path, Data("str", 0, encode_long(Obj(obj).num), <<>>), LONG)

_save_float(st, path, obj) == Leaf(st, path, Data("float", Obj(obj).num, <<>>, <<>>), FLOAT)

_save_complex(st, path, obj) ==
    Leaf(st, path, Data("complex", Obj(obj).num, <<>>, <<>>), COMPLEX)

_save_string(st, path, obj) == Leaf(st, path, Data("str", 0, Obj(obj).str, <<>>), T_STRING)

_save_unicode(st, path, obj) ==
    Leaf(st, path, Data("str", 0, utf8_encode(Obj(obj).str), <<>>), UNICODE)

\* the tuple or list obj as save_array sees it
SeqData(obj) ==
    Data(Obj(obj).kind, 0, <<>>,
         [i \in 1..Len(Obj(obj).items) |->
             [type_ |-> Obj(Obj(obj).items[i]).kind, num |-> Obj(Obj(obj).items[i]).num]])

\* variant of _save_tuple without the loop over the items
_save_tuple_m(st, path, obj) ==
    IF ~save_array_raises(SeqData(obj))
    THEN Leaf(st, path, SeqData(obj), TUPLE)
    ELSE [store |-> Put(st, path, set_attr_pickletype(Group, TUPLE)), push |-> <<>>]

_save_tuple(st, path, obj) ==
    IF ~save_array_raises(SeqData(obj))
    THEN Leaf(st, path, SeqData(obj), TUPLE)
    ELSE [store |-> Put(st, path, set_attr_pickletype(Group, TUPLE)),
          push |-> [i \in 1..Len(Obj(obj).items) |->
                       SaveTask(Append(path, IdxName(i - 1)), Obj(obj).items[i])]]

\* variant of _save_list without its set_attr
_save_list_m(st, path, obj) == _save_tuple(st, path, obj)

\* the set_attr of _save_list runs when _save_tuple has returned, that is
\* after the items are saved
_save_list(st, path, obj) ==
    [store |-> _save_tuple(st, path, obj).store,
     push |-> _save_tuple(st, path, obj).push \o <<AttrTask(path, LIST)>>]

\* variant of DirectKey without the test key != "__"
DirectKey_m(key) ==
    /\ Obj(key).kind = "str"
    /\ _check_pytables_name(Obj(key).str)

\* first loop of _save_dict_content: the keys used as child names
DirectKey(key) ==
    /\ Obj(key).kind = "str"
    /\ _check_pytables_name(Obj(key).str)
    /\ Obj(key).str # s_sub

RECURSIVE NextFree(_, _)
NextFree(keyi, seen) == IF IdxName(keyi) \in seen THEN NextFree(keyi + 1, seen) ELSE keyi

\* second loop of _save_dict_content: strkeys, as the sequence of the child
\* names of keys[i..]
RECURSIVE Surrogates(_, _, _, _)
Surrogates(keys, i, keyi, seen) ==
    IF i > Len(keys) THEN <<>>
    ELSE IF DirectKey(keys[i])
         THEN <<Obj(keys[i]).str>> \o Surrogates(keys, i + 1, keyi, seen)
         ELSE <<IdxName(NextFree(keyi, seen))>>
              \o Surrogates(keys, i + 1, NextFree(keyi, seen),
                            seen \cup {IdxName(NextFree(keyi, seen))})

\* variant of strkeys in which the first loop does not fill `seen`
strkeys_m(keys) == Surrogates(keys, 1, 0, {})

strkeys(keys) ==
    Surrogates(keys, 1, 0, {Obj(keys[i]).str : i \in {j \in 1..Len(keys) : DirectKey(keys[j])}})

\* third loop of _save_dict_content: the calls made for entries i.. ;
\* hassub is the local of that name
RECURSIVE DictCalls(_, _, _, _, _)
DictCalls(path, keys, values, i, hassub) ==
    IF i > Len(keys) THEN <<>>
    ELSE <<SaveTask(Append(path, strkeys(keys)[i]), values[i])>>
         \o (IF DirectKey(keys[i]) THEN <<>>
             ELSE (IF hassub THEN <<>> ELSE <<GroupTask(Append(path, s_sub))>>)
                  \o <<SaveTask(path \o <<s_sub, strkeys(keys)[i]>>, keys[i])>>)
         \o DictCalls(path, keys, values, i + 1, hassub \/ ~DirectKey(keys[i]))

_save_dict_content(st, path, obj) ==
    DictCalls(path, Obj(obj).keys, Obj(obj).items, 1, has_path(st, Append(path, s_sub)))

_save_dict(st, path, obj) ==
    [store |-> Put(st, path, set_attr_pickletype(Group, DICT)),
     push |-> _save_dict_content(Put(st, path, set_attr_pickletype(Group, DICT)), path, obj)]

\* variant of _save_inst that saves cls and args and leaves out the state
_save_inst_m(st, path, obj) ==
    [store |-> new_group(Put(st, path, set_attr_pickletype(Group, INST)), Append(path, s_sub)),
     push |-> <<SaveTask(path \o <<s_sub, s_cls>>, Obj(obj).cls),
                SaveTask(path \o <<s_sub, s_args>>, EmptyTuple)>>]

\* old-style instance without __getinitargs__: args = (); stuff is
\* obj.__dict__, or what __getstate__ returns
_save_inst(st, path, obj) ==
    [store |-> new_group(Put(st, path, set_attr_pickletype(Group, INST)), Append(path, s_sub)),
     push |-> <<SaveTask(path \o <<s_sub, s_cls>>, Obj(obj).cls),
                SaveTask(path \o <<s_sub, s_args>>, EmptyTuple)>>
              \o (IF Obj(obj).state = Mapping
                  THEN _save_dict_content(
                          new_group(Put(st, path, set_attr_pickletype(Group, INST)),
                                    Append(path, s_sub)), path, obj)
                  ELSE <<SaveTask(path \o <<s_sub, s_content>>, Obj(obj).state)>>)]

\* struct.pack("<i", code)
pack_i(code) ==
    <<code % 256, (code \div 256) % 256, (code \div 65536) % 256, (code \div 16777216) % 256>>

\* _save_global raises PicklingError: the object is not what its module
\* holds under its name
_save_global_raises(obj) == ~Obj(obj).found

\* a class or function of module __main__, with or without an extension
\* code in copy_reg._extension_registry
_save_global(st, path, obj) ==
    IF Obj(obj).code # 0
    THEN Leaf(st, path, Data("str", 0, pack_i(Obj(obj).code), <<>>), EXT4)
    ELSE Leaf(st, path, Data("str", 0, s_main \o <<10>> \o Obj(obj).str, <<>>), GLOBAL)

\* the shapes of the value rv of reduce(obj):
\*   "none"      there is no __reduce_ex__ and no __reduce__
\*   "str"       a string, the name of a global
\*   "int"       neither a string nor a tuple
\*   "tuple1", "tuple6"   a tuple of one or of six elements
\*   "args_list" (func, args) with args a list
\*   "args_none" (func, None)
\*   "func_int"  (func, args) with func an int
\*   "func"      (func, args[, state]) with a callable func and a tuple args
\*   "newobj"    (copy_reg.__newobj__, (cls,) + args[, state])
RvShapes == {"none", "str", "int", "tuple1", "tuple6", "args_list", "args_none",
             "func_int", "func", "newobj"}

\* rv of Pickler._save: the value of the reducer of copy_reg.dispatch_table
\* if the type has one, else of __reduce_ex__(2) if the object has that
\* method, else of __reduce__(); "none" if there is none of the three
reduce(obj) ==
    IF Obj(obj).dt # "" THEN Obj(obj).dt
    ELSE IF Obj(obj).rv \notin {"", "none"} THEN Obj(obj).rv
    ELSE IF Obj(obj).red # "" THEN Obj(obj).red
    ELSE "none"

\* variant of _save_reduce_raises without the test of callable(func)
_save_reduce_raises_m(obj) ==
    CASE reduce(obj) = "args_list" -> "PicklingError"
      [] reduce(obj) = "args_none" -> "NameError"
      [] OTHER -> ""

\* the exception _save_reduce raises before it writes; "" if none.  The
\* module does not import `warnings`, so the branch of args None, which
\* calls warnings.warn, ends in NameError.
_save_reduce_raises(obj) ==
    CASE reduce(obj) = "args_list" -> "PicklingError"
      [] reduce(obj) = "args_none" -> "NameError"
      [] reduce(obj) = "func_int" -> "PicklingError"
      [] OTHER -> ""

\* variant of _save_reduce that does not set has_reduce_content
_save_reduce_m(st, path, obj) ==
    [store |-> new_group(Put(st, path, set_attr_pickletype(Group, REDUCE)), Append(path, s_sub)),
     push |-> <<SaveTask(path \o <<s_sub, IF reduce(obj) = "newobj" THEN s_cls ELSE s_func>>,
                         Obj(obj).cls),
                SaveTask(path \o <<s_sub, s_args>>, Obj(obj).args)>>
              \o (IF Obj(obj).listitems = 0 THEN <<>>
                  ELSE <<SaveTask(path \o <<s_sub, s_listitems>>, Obj(obj).listitems)>>)
              \o (IF Obj(obj).dictitems = 0 THEN <<>>
                  ELSE <<SaveTask(path \o <<s_sub, s_dictitems>>, Obj(obj).dictitems)>>)
              \o (IF Obj(obj).state = 0 THEN <<>>
                  ELSE IF Obj(obj).state = Mapping
                  THEN _save_dict_content(
                          new_group(Put(st, path, set_attr_pickletype(Group, REDUCE)),
                                    Append(path, s_sub)), path, obj)
                  ELSE <<SaveTask(path \o <<s_sub, s_content>>, Obj(obj).state)>>)]

\* Pickler._save_reduce
_save_reduce(st, path, obj) ==
    [store |-> new_group(Put(st, path, set_attr_pickletype(Group, REDUCE)), Append(path, s_sub)),
     push |-> <<SaveTask(path \o <<s_sub, IF reduce(obj) = "newobj" THEN s_cls ELSE s_func>>,
                         Obj(obj).cls),
                SaveTask(path \o <<s_sub, s_args>>, Obj(obj).args)>>
              \o (IF Obj(obj).listitems = 0 THEN <<>>
                  ELSE <<SaveTask(path \o <<s_sub, s_listitems>>, Obj(obj).listitems)>>)
              \o (IF Obj(obj).dictitems = 0 THEN <<>>
                  ELSE <<SaveTask(path \o <<s_sub, s_dictitems>>, Obj(obj).dictitems)>>)
              \o (IF Obj(obj).state = 0 THEN <<>>
                  ELSE <<ContentAttrTask(path)>>
                       \o (IF Obj(obj).state = Mapping
                           THEN _save_dict_content(
                                   new_group(Put(st, path, set_attr_pickletype(Group, REDUCE)),
                                             Append(path, s_sub)), path, obj)
                           ELSE <<SaveTask(path \o <<s_sub, s_content>>, Obj(obj).state)>>))]

\* the part of Pickler._save after the lookup in _dispatch, for an object
\* whose type is not there: the exception it raises, "" if none
_save_reduce_rv_raises(obj) ==
    CASE reduce(obj) = "none" -> "PicklingError"
      [] reduce(obj) = "str" -> IF _save_global_raises(obj) THEN "PicklingError" ELSE ""
      [] reduce(obj) \in {"int", "tuple1", "tuple6"} -> "PicklingError"
      [] OTHER -> _save_reduce_raises(obj)

\* ... and what it writes when it does not raise
_save_reduce_rv(st, path, obj) ==
    IF reduce(obj) = "str" THEN _save_global(st, path, obj) ELSE _save_reduce(st, path, obj)

\* Pickler._dispatch
_dispatch(st, path, obj) ==
    CASE Obj(obj).kind = "none" -> _save_none(st, path, obj)
      [] Obj(obj).kind = "bool" -> _save_bool(st, path, obj)
      [] Obj(obj).kind = "int" -> _save_int(st, path, obj)
      [] Obj(obj).kind = "long" -> _save_long(st, path, obj)
      [] Obj(obj).kind = "float" -> _save_float(st, path, obj)
      [] Obj(obj).kind = "complex" -> _save_complex(st, path, obj)
      [] Obj(obj).kind = "str" -> _save_string(st, path, obj)
      [] Obj(obj).kind = "unicode" -> _save_unicode(st, path, obj)
      [] Obj(obj).kind = "tuple" -> _save_tuple(st, path, obj)
      [] Obj(obj).kind = "list" -> _save_list(st, path, obj)
      [] Obj(obj).kind = "dict" -> _save_dict(st, path, obj)
      [] Obj(obj).kind = "inst" -> _save_inst(st, path, obj)
      [] Obj(obj).kind = "class" -> _save_global(st, path, obj)

\* variant of paths_get for a Pickler that keeps no memo
paths_get_m(obj) == NoPath

\* self._dispatch.get(type(obj)) finds a handler: the exact type is one of
\* the scalar and container types, InstanceType, ClassType, TypeType or
\* FunctionType
type_in_dispatch(obj) == Obj(obj).kind # "obj" /\ ~Obj(obj).meta

\* issubclass(type(obj), TypeType), for a type without a handler: obj is a
\* class with a metaclass of its own
issc(obj) == Obj(obj).kind = "class" /\ Obj(obj).meta

\* the exception the handler of obj raises before it writes; "" if none
SaveErr(obj) ==
    IF type_in_dispatch(obj) \/ issc(obj)
    THEN IF Obj(obj).kind = "class" /\ _save_global_raises(obj) THEN "PicklingError" ELSE ""
    ELSE _save_reduce_rv_raises(obj)

\* variant of Handler that asks for a reduce value before it looks at the
\* type
Handler_m(st, path, obj) ==
    IF reduce(obj) # "none" THEN _save_reduce_rv(st, path, obj)
    ELSE IF issc(obj) THEN _save_global(st, path, obj)
    ELSE _dispatch(st, path, obj)

\* the handler Pickler._save runs for obj
Handler(st, path, obj) ==
    IF type_in_dispatch(obj) THEN _dispatch(st, path, obj)
    ELSE IF issc(obj) THEN _save_global(st, path, obj)
    ELSE _save_reduce_rv(st, path, obj)

\* self.paths.get(id(obj)); None is NoPath
paths_get(obj) == IF obj \in DOMAIN paths THEN paths[obj] ELSE NoPath

\* variant of paths_set that records the path of every call
paths_set_m(p, x, obj, path) == Put(p, obj, path)

\* the else branch of `if x:` in _save: self.paths[id(obj)] = path
paths_set(p, x, obj, path) == IF x # NoPath THEN p ELSE Put(p, obj, path)

LoadIdle == lstack = <<>>
DumpIdle == stack = <<>>

\* variant of Pickler_clear_memo that keeps the entries
Pickler_clear_memo_m(p) == p

\* Pickler.clear_memo, and the paths of a Pickler just made: self.paths = {}
Pickler_clear_memo(p) == EmptyMap

\* dump(obj, file, path) with a Pickler of its own, or the next round of
\* the loop of dump_many
dump ==
    /\ err = "" /\ DumpIdle /\ desc # <<>>
    /\ stack' = <<SaveTask(Head(desc).path, Head(desc).obj)>>
    /\ desc' = Tail(desc)
    /\ paths' = IF batch THEN paths ELSE Pickler_clear_memo(paths)
    /\ UNCHANGED <<extension_cache, env, faults, failed, objs, batch, loads, store, calls, memo, dheap, lstack, ret, result, order, err>>

\* one call of Pickler._save with its handler; the calls the handler makes
\* are pushed and run next.  createGroup / createArray raise NodeError on
\* a path that exists.
_save ==
    /\ err = "" /\ stack # <<>> /\ Head(stack).op = "save"
    /\ LET path == Head(stack).path
           obj == Head(stack).obj
           x == paths_get(obj)
       IN /\ calls' = Append(calls, [path |-> path, obj |-> obj, ref |-> x # NoPath])
          /\ paths' = paths_set(paths, x, obj, path)
          /\ IF x = NoPath /\ SaveErr(obj) # ""
             THEN /\ err' = SaveErr(obj)
                  /\ UNCHANGED <<store, stack>>
             ELSE IF has_path(store, path)
             THEN /\ err' = "NodeError"
                  /\ UNCHANGED <<store, stack>>
             ELSE /\ err' = err
                  /\ IF x # NoPath
                     THEN /\ store' = _save_ref(store, path, x)
                          /\ stack' = Tail(stack)
                     ELSE /\ store' = Handler(store, path, obj).store
                          /\ stack' = Handler(store, path, obj).push \o Tail(stack)
    /\ UNCHANGED <<extension_cache, env, faults, failed, objs, batch, desc, loads, memo, dheap, lstack, ret, result, order>>

\* the new_group('%s/__') inside the loop of _save_dict_content
save_new_group ==
    /\ err = "" /\ stack # <<>> /\ Head(stack).op = "new_group"
    /\ IF has_path(store, Head(stack).path)
       THEN err' = "NodeError" /\ UNCHANGED <<store, stack>>
       ELSE /\ store' = new_group(store, Head(stack).path)
            /\ stack' = Tail(stack)
            /\ err' = err
    /\ UNCHANGED <<extension_cache, env, faults, failed, objs, batch, desc, loads, paths, calls, memo, dheap, lstack, ret, result, order>>

\* the set_attr(item, 'pickletype', LIST) that ends _save_list, and the
\* set_attr(group, 'has_reduce_content', 1) of _save_reduce
save_set_attr ==
    /\ err = "" /\ stack # <<>> /\ Head(stack).op = "set_attr"
    /\ store' = [store EXCEPT ![Head(stack).path] =
                     IF Head(stack).value = "has_reduce_content"
                     THEN [@ EXCEPT !.has_reduce_content = TRUE]
                     ELSE set_attr_pickletype(@, Head(stack).value)]
    /\ stack' = Tail(stack)
    /\ UNCHANGED <<extension_cache, env, faults, failed, objs, batch, desc, loads, paths, calls, memo, dheap, lstack, ret, result, order, err>>


(***************************************************************************)
(* Unpickler.                                                              *)
(***************************************************************************)
\* the names of node._v_children
Children(st, path) ==
    {q[Len(q)] : q \in {r \in DOMAIN st : Len(r) = Len(path) + 1
                                          /\ SubSeq(r, 1, Len(path)) = path}}

\* variant of cmpfunc that compares the names as strings only
cmpfunc_m(a, b) == StrCmp(a, b)

\* cmpfunc of _load_list_content
cmpfunc(a, b) == IF Len(a) - Len(b) = 0 THEN StrCmp(a, b) ELSE Len(a) - Len(b)

\* names.sort(cmpfunc)
RECURSIVE SortedNames(_)
SortedNames(S) ==
    IF S = {} THEN <<>>
    ELSE LET m == CHOOSE x \in S : \A y \in S \ {x} : cmpfunc(x, y) < 0
         IN <<m>> \o SortedNames(S \ {m})

RECURSIVE Ascending(_)
Ascending(S) ==
    IF S = {} THEN <<>>
    ELSE LET m == CHOOSE x \in S : \A y \in S \ {x} : StrCmp(x, y) < 0
         IN <<m>> \o Ascending(S \ {m})

Reverse(q) == [i \in 1..Len(q) |-> q[Len(q) + 1 - i]]

\* iteration over a _v_children dict: a fixed order the code does not choose
Iterate(S) == IF order = "asc" THEN Ascending(S) ELSE Reverse(Ascending(S))

\* variant of load_array(node, str) that does not look at `empty`
load_array_str_m(node) == node.data

\* load_array(node, str)
load_array_str(node) == IF node.empty THEN <<>> ELSE node.data

\* the items of load_array(node, list): list(node.read())
load_array_list(node) ==
    IF node.empty THEN <<>>
    ELSE [i \in 1..Len(node.data) |-> Scalar(node.dtype, node.data[i])]

\* data.split('\n') of _load_global: the text after the newline
GlobalName(data) ==
    SubSeq(data, (CHOOSE i \in 1..Len(data) : data[i] = 10) + 1, Len(data))

\* the object a leaf handler of Unpickler._dispatch returns
LoadLeaf(node) ==
    CASE node.pickletype = NONE -> Scalar("none", 0)
      [] node.pickletype = BOOL ->
            Scalar("bool", IF \A i \in 1..Len(node.data) : node.data[i] # 0 THEN 1 ELSE 0)
      [] node.pickletype = INT -> Scalar("int", node.data[1])
      [] node.pickletype = LONG -> Scalar("long", decode_long(load_array_str(node)))
      [] node.pickletype = FLOAT -> Scalar("float", node.data[1])
      [] node.pickletype = COMPLEX -> Scalar("complex", node.data[1])
      [] node.pickletype = T_STRING -> Text("str", load_array_str(node))
      [] node.pickletype = UNICODE -> Text("unicode", utf8_decode(load_array_str(node)))
      [] node.pickletype = GLOBAL -> Text("class", GlobalName(load_array_str(node)))

LeafTags == {NONE, BOOL, INT, LONG, FLOAT, COMPLEX, T_STRING, UNICODE, GLOBAL}

\* the keys of Unpickler._dispatch (those of the array packages left out)
DecodeTags == LeafTags \cup {TUPLE, LIST, DICT, INST, REF, REDUCE, EXT4}

\* marshal.loads('i' + data): the code of an EXT4 node
marshal_loads_i(data) == data[1] + 256 * data[2] + 65536 * data[3] + 16777216 * data[4]

\* copy_reg._inverted_registry.get(code): the class registered with the
\* code when the file is loaded, 0 if there is none
_inverted_registry_get(code) ==
    IF env.registered /\ \E c \in DOMAIN objs : objs[c].kind = "class" /\ objs[c].code = code
    THEN CHOOSE c \in DOMAIN objs : objs[c].kind = "class" /\ objs[c].code = code
    ELSE 0

\* the exception _get_extension raises, "" if none: on a hit in
\* _extension_cache it calls self.append, which no Unpickler has
_get_extension_raises(code) ==
    IF code \in extension_cache THEN "AttributeError"
    ELSE IF _inverted_registry_get(code) = 0 THEN "ValueError"
    ELSE ""

\* the object _get_extension returns when it does not raise
_get_extension(code) == Obj(_inverted_registry_get(code))

\* a == b of two loaded objects used as dict keys
PyEq(h, a, b) ==
    \/ a = b
    \/ /\ h[a].kind \in {"bool", "int", "long", "float", "complex"}
       /\ h[b].kind \in {"bool", "int", "long", "float", "complex"}
       /\ h[a].num = h[b].num
    \/ /\ h[a].kind \in {"str", "unicode"}
       /\ h[b].kind \in {"str", "unicode"}
       /\ h[a].str = h[b].str
       /\ h[a].kind = h[b].kind \/ \A i \in 1..Len(h[a].str) : h[a].str[i] < 128
    \/ h[a].kind = "none" /\ h[b].kind = "none"

\* data[realkey] = value
DictSet(h, data, realkey, value) ==
    IF \E i \in 1..Len(h[data].keys) : PyEq(h, h[data].keys[i], realkey)
    THEN [h EXCEPT ![data].items[CHOOSE i \in 1..Len(h[data].keys) :
                                     PyEq(h, h[data].keys[i], realkey)] = value]
    ELSE [h EXCEPT ![data].keys = Append(@, realkey), ![data].items = Append(@, value)]

Frame(path, pc) ==
    [path |-> path, pc |-> pc, obj |-> 0, data |-> 0, names |-> <<>>, cur |-> <<>>,
     wait |-> FALSE, strk |-> EmptyMap, cls |-> 0]

\* the surrogate names _load_dict_content reads under node/__
KeyNames(st, path) ==
    IF s_sub \in Children(st, path)
    THEN Iterate({n \in Children(st, Append(path, s_sub)) : n[1] = 95})
    ELSE <<>>

\* variant of Unpickler_clear_memo that keeps the entries
Unpickler_clear_memo_m(m) == m

\* Unpickler.clear_memo, and the memo of an Unpickler just made:
\* self.memo = {}
Unpickler_clear_memo(m) == EmptyMap

\* load(file, path) with an Unpickler of its own, or the next round of the
\* loop of load_many
load_many ==
    /\ err = "" /\ DumpIdle /\ desc = <<>> /\ LoadIdle /\ loads # <<>>
    /\ lstack' = <<Frame(Head(loads), "call"), Frame(Head(loads), "top")>>
    /\ loads' = Tail(loads)
    /\ memo' = IF batch THEN memo ELSE Unpickler_clear_memo(memo)
    /\ UNCHANGED <<extension_cache, env, faults, failed, objs, batch, desc, store, paths, stack, calls, dheap, ret, result, order, err>>

\* r.append((path, obj)) / return of load
load_result ==
    /\ err = "" /\ lstack # <<>> /\ Head(lstack).pc = "top"
    /\ result' = Append(result, [path |-> Head(lstack).path, obj |-> ret])
    /\ lstack' = Tail(lstack)
    /\ UNCHANGED <<extension_cache, env, faults, failed, objs, batch, desc, loads, store, paths, stack, calls, memo, dheap, ret, order, err>>

\* variant of MemoizeItems that leaves the memo as it is
MemoizeItems_m(m, path, items) == m

\* self.memo[node._v_pathname] = items of _load_list_content
MemoizeItems(m, path, items) == Put(m, path, items)

\* the calls of load and of its handlers that the interpreter lets nest
\* before it raises "maximum recursion depth exceeded"
MaxDepth == 12

\* Unpickler.load up to the first nested load: the memo lookup, the
\* handlers of leaves, and the start of the handlers of groups
load ==
    /\ err = "" /\ lstack # <<>> /\ Head(lstack).pc = "call"
    /\ LET f == Head(lstack)
           path == f.path
           node == get_path(store, path)
           new == Len(dheap) + 1
       IN IF Len(lstack) > MaxDepth
          THEN err' = "RuntimeError" /\ UNCHANGED <<memo, dheap, lstack, ret>>
          ELSE IF path \in DOMAIN memo
          THEN /\ ret' = memo[path]
               /\ lstack' = Tail(lstack)
               /\ UNCHANGED <<memo, dheap, err>>
          ELSE IF node = NoNode
          THEN err' = "NoSuchNodeError" /\ UNCHANGED <<memo, dheap, lstack, ret>>
          ELSE IF node.pickletype = ""
          THEN err' = "AttributeError" /\ UNCHANGED <<memo, dheap, lstack, ret>>
          ELSE IF node.pickletype \in LeafTags
          THEN /\ dheap' = Append(dheap, LoadLeaf(node))
               /\ memo' = Put(memo, path, new)
               /\ ret' = new
               /\ lstack' = Tail(lstack)
               /\ err' = err
          ELSE IF node.pickletype \in {TUPLE, LIST} /\ node.node = "Array"
          THEN LET elems == load_array_list(node)
               IN /\ dheap' = dheap \o elems \o
                        <<PyObj(IF node.pickletype = TUPLE THEN "tuple" ELSE "list",
                                0, <<>>, [i \in 1..Len(elems) |-> Len(dheap) + i], <<>>, 0)>>
                  /\ memo' = Put(memo, path, new + Len(elems))
                  /\ ret' = new + Len(elems)
                  /\ lstack' = Tail(lstack)
                  /\ err' = err
          ELSE IF node.pickletype \in {TUPLE, LIST}
          THEN /\ dheap' = Append(dheap, PyObj("list", 0, <<>>, <<>>, <<>>, 0))
               /\ memo' = MemoizeItems(memo, path, new)
               /\ lstack' = <<[f EXCEPT !.pc = "items", !.obj = new,
                                        !.names = SortedNames(Children(store, path))]>>
                            \o Tail(lstack)
               /\ UNCHANGED <<ret, err>>
          ELSE IF node.pickletype = DICT
          THEN /\ dheap' = Append(dheap, PyObj("dict", 0, <<>>, <<>>, <<>>, 0))
               /\ memo' = Put(memo, path, new)
               /\ lstack' = <<[f EXCEPT !.pc = "dkeys", !.obj = new, !.data = new,
                                        !.names = KeyNames(store, path)]>>
                            \o Tail(lstack)
               /\ UNCHANGED <<ret, err>>
          ELSE IF node.pickletype = INST
          THEN /\ lstack' = <<Frame(path \o <<s_sub, s_cls>>, "call"), [f EXCEPT !.pc = "icls"]>>
                            \o Tail(lstack)
               /\ UNCHANGED <<memo, dheap, ret, err>>
          ELSE IF node.pickletype = REF
          THEN /\ lstack' = <<Frame(node.target, "call"), [f EXCEPT !.pc = "ref"]>>
                            \o Tail(lstack)
               /\ UNCHANGED <<memo, dheap, ret, err>>
          ELSE IF node.pickletype = REDUCE
          THEN /\ lstack' = <<Frame(path \o <<s_sub, s_args>>, "call"), [f EXCEPT !.pc = "rargs"]>>
                            \o Tail(lstack)
               /\ UNCHANGED <<memo, dheap, ret, err>>
          ELSE IF node.pickletype = EXT4
          THEN LET code == marshal_loads_i(load_array_str(node))
               IN IF _get_extension_raises(code) # ""
                  THEN /\ err' = _get_extension_raises(code)
                       /\ UNCHANGED <<memo, dheap, lstack, ret>>
                  ELSE /\ dheap' = Append(dheap, _get_extension(code))
                       /\ memo' = Put(memo, path, new)
                       /\ ret' = new
                       /\ lstack' = Tail(lstack)
                       /\ err' = err
          ELSE err' = "KeyError" /\ UNCHANGED <<memo, dheap, lstack, ret>>
    /\ extension_cache' =
          IF /\ Head(lstack).path \notin DOMAIN memo
             /\ get_path(store, Head(lstack).path).pickletype = EXT4
             /\ _get_extension_raises(marshal_loads_i(load_array_str(get_path(store, Head(lstack).path)))) = ""
          THEN extension_cache \cup {marshal_loads_i(load_array_str(get_path(store, Head(lstack).path)))}
          ELSE extension_cache
    /\ UNCHANGED <<env, faults, failed, objs, batch, desc, loads, store, paths, stack, calls, result, order>>

\* _load_ref when the load of the target has returned, and the end of load
_load_ref ==
    /\ err = "" /\ lstack # <<>> /\ Head(lstack).pc = "ref"
    /\ memo' = Put(memo, Head(lstack).path, ret)
    /\ lstack' = Tail(lstack)
    /\ UNCHANGED <<extension_cache, env, faults, failed, objs, batch, desc, loads, store, paths, stack, calls, dheap, ret, result, order, err>>

\* the loop of _load_list_content: append the item that was loaded, then
\* load the next one, or return to _load_list / _load_tuple and to load
_load_list_content ==
    /\ err = "" /\ lstack # <<>> /\ Head(lstack).pc = "items"
    /\ LET f == Head(lstack)
           h == IF f.wait THEN [dheap EXCEPT ![f.obj].items = Append(@, ret)] ELSE dheap
       IN IF f.names # <<>>
          THEN /\ dheap' = h
               /\ lstack' = <<Frame(Append(f.path, Head(f.names)), "call"),
                              [f EXCEPT !.names = Tail(@), !.wait = TRUE]>> \o Tail(lstack)
               /\ UNCHANGED <<memo, ret>>
          ELSE IF store[f.path].pickletype = TUPLE
          THEN /\ dheap' = Append(h, [h[f.obj] EXCEPT !.kind = "tuple"])
               /\ memo' = Put(memo, f.path, Len(h) + 1)
               /\ ret' = Len(h) + 1
               /\ lstack' = Tail(lstack)
          ELSE /\ dheap' = h
               /\ memo' = Put(memo, f.path, f.obj)
               /\ ret' = f.obj
               /\ lstack' = Tail(lstack)
    /\ UNCHANGED <<extension_cache, env, faults, failed, objs, batch, desc, loads, store, paths, stack, calls, result, order, err>>

\* _setstate(inst, state) for a dict state: the object has taken the
\* mapping as its state, by __setstate__ or by inst.__dict__.update
_setstate(h, inst, state) ==
    [h EXCEPT ![inst].keys = h[state].keys, ![inst].items = h[state].items,
              ![inst].state = Mapping]

\* the two loops of _load_dict_content, then the return to _load_dict or
\* to _load_inst (which applies the state) and to load
_load_dict_content ==
    /\ err = "" /\ lstack # <<>> /\ Head(lstack).pc \in {"dkeys", "dvals"}
    /\ LET f == Head(lstack)
           strk == IF f.pc = "dkeys" /\ f.wait THEN Put(f.strk, f.cur, ret) ELSE f.strk
           direct == f.pc = "dvals" /\ f.wait /\ f.cur \notin DOMAIN strk
           h0 == IF direct THEN Append(dheap, Text("str", f.cur)) ELSE dheap
           h == IF f.pc = "dvals" /\ f.wait
                THEN DictSet(h0, f.data, IF direct THEN Len(h0) ELSE strk[f.cur], ret)
                ELSE h0
       IN IF f.names # <<>>
          THEN /\ dheap' = h
               /\ lstack' = <<Frame(IF f.pc = "dkeys"
                                    THEN f.path \o <<s_sub, Head(f.names)>>
                                    ELSE Append(f.path, Head(f.names)), "call"),
                              [f EXCEPT !.names = Tail(@), !.cur = Head(f.names),
                                        !.wait = TRUE, !.strk = strk]>> \o Tail(lstack)
               /\ UNCHANGED <<memo, ret>>
          ELSE IF f.pc = "dkeys"
          THEN /\ dheap' = h
               /\ lstack' = <<[f EXCEPT !.pc = "dvals", !.wait = FALSE, !.strk = strk,
                                        !.names = Iterate(Children(store, f.path) \ {s_sub})]>>
                            \o Tail(lstack)
               /\ UNCHANGED <<memo, ret>>
          ELSE /\ dheap' = IF f.obj = f.data THEN h ELSE _setstate(h, f.obj, f.data)
               /\ memo' = Put(memo, f.path, f.obj)
               /\ ret' = f.obj
               /\ lstack' = Tail(lstack)
    /\ UNCHANGED <<extension_cache, env, faults, failed, objs, batch, desc, loads, store, paths, stack, calls, result, order, err>>

\* variant of Memoize that leaves the memo as it is
Memoize_m(m, path, obj) == m

\* self.memo[path] = inst of _load_inst and self.memo[path] = obj of
\* _load_reduce, before the state is looked at
Memoize(m, path, obj) == Put(m, path, obj)

\* _load_inst: cls and args are loaded, then the instance is made by
\* _instantiate (no args, no __getinitargs__: an _EmptyClass turned into
\* klass) and put in the memo, then the state is loaded from __/content
\* if that is there, and else read from the children; a state that is not
\* a mapping is given to the __setstate__ of the class
_load_inst ==
    /\ err = "" /\ lstack # <<>> /\ Head(lstack).pc \in {"icls", "iargs", "icontent"}
    /\ LET f == Head(lstack)
           new == Len(dheap) + 1
       IN IF f.pc = "icls"
          THEN /\ lstack' = <<Frame(f.path \o <<s_sub, s_args>>, "call"),
                              [f EXCEPT !.pc = "iargs", !.cls = ret]>> \o Tail(lstack)
               /\ UNCHANGED <<memo, dheap, ret>>
          ELSE IF f.pc = "iargs" /\ has_path(store, f.path \o <<s_sub, s_content>>)
          THEN /\ dheap' = Append(dheap, PyObj("inst", 0, <<>>, <<>>, <<>>, f.cls))
               /\ memo' = Memoize(memo, f.path, new)
               /\ lstack' = <<Frame(f.path \o <<s_sub, s_content>>, "call"),
                              [f EXCEPT !.pc = "icontent", !.obj = new]>> \o Tail(lstack)
               /\ ret' = ret
          ELSE IF f.pc = "iargs"
          THEN /\ dheap' = dheap \o <<PyObj("inst", 0, <<>>, <<>>, <<>>, f.cls),
                                      PyObj("dict", 0, <<>>, <<>>, <<>>, 0)>>
               /\ memo' = Memoize(memo, f.path, new)
               /\ lstack' = <<[f EXCEPT !.pc = "dkeys", !.obj = new, !.data = new + 1,
                                        !.names = KeyNames(store, f.path)]>> \o Tail(lstack)
               /\ ret' = ret
          ELSE /\ dheap' = [dheap EXCEPT ![f.obj].state = ret]
               /\ memo' = Put(memo, f.path, f.obj)
               /\ ret' = f.obj
               /\ lstack' = Tail(lstack)
    /\ UNCHANGED <<extension_cache, env, faults, failed, objs, batch, desc, loads, store, paths, stack, calls, result, order, err>>

\* _load_reduce: args is loaded, then func if it is there and else cls, the
\* object is made and put in the memo; then __/listitems and __/dictitems
\* are loaded if they are there and given to obj.extend and obj[key] =
\* value; then the state is loaded from __/content if that is there, and
\* read from the children if has_reduce_content is set
_load_reduce ==
    /\ err = "" /\ lstack # <<>>
    /\ Head(lstack).pc \in {"rargs", "rfunc", "rmade", "rlist", "rext", "rdict", "rstate", "rcontent"}
    /\ LET f == Head(lstack)
           new == Len(dheap) + 1
           sub(name) == f.path \o <<s_sub, name>>
           goto(pc) == <<[f EXCEPT !.pc = pc]>> \o Tail(lstack)
           call(name, pc) == <<Frame(sub(name), "call"), [f EXCEPT !.pc = pc]>> \o Tail(lstack)
       IN CASE f.pc = "rargs" ->
                 /\ lstack' = <<Frame(sub(IF has_path(store, sub(s_func)) THEN s_func ELSE s_cls),
                                      "call"),
                                [f EXCEPT !.pc = "rfunc", !.data = ret]>> \o Tail(lstack)
                 /\ UNCHANGED <<memo, dheap, ret, err>>
            [] f.pc = "rfunc" ->
                 IF dheap[f.data].kind = "none" /\ has_path(store, sub(s_func))
                 THEN err' = "NameError" /\ UNCHANGED <<memo, dheap, lstack, ret>>
                 ELSE /\ dheap' = Append(dheap, [PyObj("obj", 0, <<>>, <<>>, <<>>, ret)
                                                     EXCEPT !.args = f.data])
                      /\ memo' = Memoize(memo, f.path, new)
                      /\ lstack' = <<[f EXCEPT !.pc = "rmade", !.obj = new]>> \o Tail(lstack)
                      /\ UNCHANGED <<ret, err>>
            [] f.pc = "rmade" ->
                 /\ lstack' = IF has_path(store, sub(s_listitems))
                               THEN call(s_listitems, "rlist") ELSE goto("rext")
                 /\ UNCHANGED <<memo, dheap, ret, err>>
            [] f.pc = "rlist" ->
                 /\ dheap' = [dheap EXCEPT ![f.obj].listitems = ret]
                 /\ lstack' = goto("rext")
                 /\ UNCHANGED <<memo, ret, err>>
            [] f.pc = "rext" ->
                 /\ lstack' = IF has_path(store, sub(s_dictitems))
                               THEN call(s_dictitems, "rdict") ELSE goto("rstate")
                 /\ UNCHANGED <<memo, dheap, ret, err>>
            [] f.pc = "rdict" ->
                 /\ dheap' = [dheap EXCEPT ![f.obj].dictitems = ret]
                 /\ lstack' = goto("rstate")
                 /\ UNCHANGED <<memo, ret, err>>
            [] f.pc = "rstate" ->
                 IF has_path(store, sub(s_content))
                 THEN /\ lstack' = call(s_content, "rcontent")
                      /\ UNCHANGED <<memo, dheap, ret, err>>
                 ELSE IF store[f.path].has_reduce_content
                 THEN /\ dheap' = Append(dheap, PyObj("dict", 0, <<>>, <<>>, <<>>, 0))
                      /\ lstack' = <<[f EXCEPT !.pc = "dkeys", !.data = new,
                                               !.names = KeyNames(store, f.path)]>> \o Tail(lstack)
                      /\ UNCHANGED <<memo, ret, err>>
                 ELSE /\ memo' = Put(memo, f.path, f.obj)
                      /\ ret' = f.obj
                      /\ lstack' = Tail(lstack)
                      /\ UNCHANGED <<dheap, err>>
            [] f.pc = "rcontent" ->
                 /\ dheap' = IF dheap[ret].kind = "none" THEN dheap
                              ELSE [dheap EXCEPT ![f.obj].state = ret]
                 /\ memo' = Put(memo, f.path, f.obj)
                 /\ ret' = f.obj
                 /\ lstack' = Tail(lstack)
                 /\ err' = err
    /\ UNCHANGED <<extension_cache, env, faults, failed, objs, batch, desc, loads, store, paths, stack, calls, result, order>>


(***************************************************************************)
(* The explored runs: an object graph is dumped to an empty file, entry by *)
(* entry, and the paths are loaded back.                                   *)
(***************************************************************************)
Outer == NAtoms + 1
Inner == NAtoms + 2

SeqsUpTo(S, n) == UNION {[1..k -> S] : k \in 0..n}

Injective(q) == \A i, j \in 1..Len(q) : q[i] = q[j] => i = j

Entry(name, obj) == [path |-> <<name>>, obj |-> obj]

\* items of the dumped tuples and lists of scalars
SeqPool == {2, 4, 6, 9, 10, 11, 12, 13}

\* keys of the dumped dicts and instance states (pairwise unequal), and the
\* value each is given
KeyPool == {4, 18, 19, 20, 21, 22, 23}
ValueOf(key) ==
    CASE key = 4 -> 24 [] key = 18 -> 3 [] key = 19 -> 4
      [] key = 20 -> 5 [] key = 21 -> 9 [] key = 22 -> 13 [] OTHER -> 2

\* children of the containers of the dumped graphs, and the keys of the
\* entries of a dict or instance among them
GraphPool == {Outer, Inner, 4}
GraphKeys == <<13, 20, 18>>
Kinds == {"tuple", "list", "dict", "inst"}

Container(kind, items, keys) ==
    [PyObj(kind, 0, <<>>, items, IF kind \in {"dict", "inst"} THEN keys ELSE <<>>,
           IF kind = "inst" THEN ClsId ELSE 0)
     EXCEPT !.state = IF kind = "inst" THEN Mapping ELSE 0]

GraphNode(kind, items) == Container(kind, items, SubSeq(GraphKeys, 1, Len(items)))

InSeq(x, q) == \E i \in 1..Len(q) : q[i] = x

\* a tuple exists before anything that holds it: no cycle runs through
\* tuples only
Constructible(h) ==
    /\ \A c \in DOMAIN h : h[c].kind = "tuple" => ~InSeq(c, h[c].items)
    /\ ~(/\ h[Outer].kind = "tuple" /\ h[Inner].kind = "tuple"
         /\ InSeq(Inner, h[Outer].items) /\ InSeq(Outer, h[Inner].items))

Graphs(fan1, fan2) ==
    {h \in [{Outer, Inner} -> {GraphNode(k, q) : k \in Kinds, q \in SeqsUpTo(GraphPool, fan1)}] :
        /\ h[Inner] \in {GraphNode(k, q) : k \in Kinds, q \in SeqsUpTo(GraphPool, fan2)}
        /\ Constructible(h)
        /\ InSeq(Inner, h[Outer].items) \/ h[Inner] = GraphNode("list", <<>>)}

InitRest ==
    /\ store = EmptyMap /\ paths = EmptyMap /\ stack = <<>> /\ calls = <<>>
    /\ memo = EmptyMap /\ dheap = <<>> /\ lstack = <<>> /\ ret = 0
    /\ result = <<>> /\ err = ""

\* one scalar, class or empty tuple
InitAtom ==
    /\ objs = EmptyMap /\ batch = FALSE /\ order = "asc"
    /\ \E a \in 1..NAtoms : desc = <<Entry(s_obj, a)>>
    /\ loads = <<<<s_obj>>>>

\* one tuple or list of scalars
InitSeq ==
    /\ \E k \in {"tuple", "list"}, q \in SeqsUpTo(SeqPool, MaxSeqLen) :
          /\ k = "tuple" => q # <<>>      \* the empty tuple is object 16
          /\ objs = (Outer :> Container(k, q, <<>>))
    /\ batch = FALSE /\ order = "asc"
    /\ desc = <<Entry(s_obj, Outer)>>
    /\ loads = <<<<s_obj>>>>

\* one dict or instance with scalar values
InitDict ==
    /\ \E k \in {"dict", "inst"}, q \in SeqsUpTo(KeyPool, MaxKeys) :
          /\ Injective(q)
          /\ objs = (Outer :> Container(k, [i \in 1..Len(q) |-> ValueOf(q[i])], q))
    /\ batch = FALSE /\ order \in {"asc", "desc"}
    /\ desc = <<Entry(s_obj, Outer)>>
    /\ loads = <<<<s_obj>>>>

\* a graph of two containers, with sharing and cycles
InitGraph ==
    /\ objs \in Graphs(MaxFan, 1)
    /\ batch = FALSE /\ order \in {"asc", "desc"}
    /\ desc = <<Entry(s_obj, Outer)>>
    /\ loads = <<<<s_obj>>>>

\* two entries dumped by dump_many and loaded by load_many, or by two dump
\* and two load calls
InitMany ==
    /\ objs \in Graphs(1, 1)
    /\ batch \in BOOLEAN /\ order = "asc"
    /\ \E o \in {Outer, Inner} : desc = <<Entry(s_a, Outer), Entry(s_b, o)>>
    /\ loads \in {<<<<s_a>>, <<s_b>>>>, <<<<s_b>>, <<s_a>>>>}

\* the caller gives up at the first exception, nobody else writes to the
\* file, and no extension code has been resolved in the process
PlainEnv == [retry |-> FALSE, registered |-> TRUE, faults |-> 0]

InitPlain == env = PlainEnv /\ faults = 0 /\ failed = <<>> /\ extension_cache = {}

Init == InitRest /\ InitPlain /\ (InitAtom \/ InitSeq \/ InitDict \/ InitGraph \/ InitMany)

Next ==
    \/ dump
    \/ _save
    \/ save_new_group
    \/ save_set_attr
    \/ load_many
    \/ load
    \/ load_result
    \/ _load_ref
    \/ _load_list_content
    \/ _load_dict_content
    \/ _load_inst

Spec == Init /\ [][Next]_vars

Done == err = "" /\ desc = <<>> /\ DumpIdle /\ loads = <<>> /\ LoadIdle
Dumped == err = "" /\ desc = <<>> /\ DumpIdle


(***************************************************************************)
(* Runs with objects saved through reduce, globals with extension codes,   *)
(* states that are not mappings, files that were changed after the dump,   *)
(* and callers that go on after an exception.                              *)
(***************************************************************************)
\* the number of changes made to the file between dump and load
MaxFaults == 1

\* the file is as dump wrote it
Intact == faults = 0

\* the extension codes given out with copy_reg.add_extension
XCodes == {1, 300}

\* the file handed to load is not the file dump wrote: below one node the
\* tree was removed, or a node has lost its pickletype attribute (as a node
\* made with createArray or createGroup alone has none)
damage ==
    /\ faults < env.faults /\ Dumped /\ LoadIdle /\ loads # <<>> /\ result = <<>>
    /\ \E p \in DOMAIN store :
          \/ /\ store[p].pickletype # ""
             /\ store' = [store EXCEPT ![p].pickletype = ""]
          \/ store' = [q \in {r \in DOMAIN store :
                                 ~(Len(p) <= Len(r) /\ SubSeq(r, 1, Len(p)) = p)} |-> store[q]]
    /\ faults' = faults + 1
    /\ UNCHANGED <<extension_cache, env, failed, objs, batch, desc, loads, paths, stack, calls, memo, dheap, lstack, ret, result, order, err>>

\* the caller catches the exception of Unpickler.load(path) and calls
\* load(path) again on the same Unpickler; `left` is what the memo held for
\* the path when the first call failed (0: nothing)
retry ==
    /\ env.retry /\ err # "" /\ lstack # <<>> /\ failed = <<>>
    /\ LET path == lstack[Len(lstack)].path
       IN /\ failed' = <<[path |-> path,
                          left |-> IF path \in DOMAIN memo THEN memo[path] ELSE 0]>>
          /\ lstack' = <<Frame(path, "call"), Frame(path, "top")>>
    /\ err' = ""
    /\ UNCHANGED <<extension_cache, env, faults, objs, batch, desc, loads, store, paths, stack, calls, memo, dheap, ret, result, order>>

\* an object of a type without a handler in Pickler._dispatch: rv is the
\* shape of what its reduce gives, func or cls is the class Cls, args ()
ReduceObj(rv, state, keys, items) ==
    [PyObj("obj", 0, s_Cls, items, keys, ClsId)
     EXCEPT !.rv = rv, !.state = state, !.args = EmptyTuple]

\* a class of module __main__
ClassObj(code, found) ==
    [PyObj("class", 0, s_Cls, <<>>, <<>>, 0) EXCEPT !.code = code, !.found = found]

\* the states of the instances and reduced objects: mappings with these
\* keys and values, and these values that are no mappings
XKeyPool == {13, 18, 22}
XValuePool == {4, 16}
XStates == {4, 16, Inner}

XMappings ==
    {m \in [keys : SeqsUpTo(XKeyPool, 2), items : SeqsUpTo(XValuePool, 2)] :
        Len(m.keys) = Len(m.items) /\ Injective(m.keys)}

\* one object saved through reduce, one instance or one dict, with a state
InitObj ==
    /\ \/ \E rv \in RvShapes \ {"str"} :
             \/ \E m \in XMappings :
                   objs = (Outer :> ReduceObj(rv, Mapping, m.keys, m.items)) @@
                          (Inner :> Container("list", <<4>>, <<>>))
             \/ \E st \in XStates \cup {0} :
                   objs = (Outer :> ReduceObj(rv, st, <<>>, <<>>)) @@
                          (Inner :> Container("list", <<4>>, <<>>))
       \/ \E found \in BOOLEAN :
             objs = (Outer :> [ReduceObj("str", 0, <<>>, <<>>) EXCEPT !.found = found]) @@
                    (Inner :> Container("list", <<4>>, <<>>))
       \/ \E m \in XMappings, k \in {"dict", "inst"} :
             objs = (Outer :> Container(k, m.items, m.keys)) @@
                    (Inner :> Container("list", <<4>>, <<>>))
       \/ \E st \in XStates :
             objs = (Outer :> [Container("inst", <<>>, <<>>) EXCEPT !.state = st]) @@
                    (Inner :> Container("list", <<4>>, <<>>))
    /\ batch = FALSE /\ order = "asc"
    /\ desc = <<Entry(s_obj, Outer)>>
    /\ loads = <<<<s_obj>>>>
    /\ env \in [retry : BOOLEAN, registered : {TRUE}, faults : 0..MaxFaults]
    /\ faults = 0 /\ failed = <<>> /\ extension_cache = {}

\* a class with or without an extension code, loaded once or twice in a
\* process that has or has not resolved the code before
InitClass ==
    /\ \E code \in XCodes \cup {0}, found \in BOOLEAN :
          /\ objs = (Outer :> ClassObj(code, found))
          /\ extension_cache \in {{}, {code} \ {0}}
    /\ batch \in BOOLEAN /\ order = "asc"
    /\ desc = <<Entry(s_obj, Outer)>>
    /\ loads \in {<<<<s_obj>>>>, <<<<s_obj>>, <<s_obj>>>>}
    /\ env \in [retry : {FALSE}, registered : BOOLEAN, faults : {0}]
    /\ faults = 0 /\ failed = <<>>

\* two entries, dumped and loaded in one session or in two, one path
\* loaded twice
InitSessions ==
    /\ objs \in Graphs(1, 1)
    /\ batch \in BOOLEAN /\ order = "asc"
    /\ \E o \in {Outer, Inner} : desc = <<Entry(s_a, Outer), Entry(s_b, o)>>
    /\ loads \in {<<<<s_a>>, <<s_a>>>>, <<<<s_b>>, <<s_a>>>>}
    /\ env = PlainEnv /\ faults = 0 /\ failed = <<>> /\ extension_cache = {}

\* a graph of two containers, loaded from a file that was changed
InitDamaged ==
    /\ objs \in Graphs(1, 1)
    /\ batch = FALSE /\ order = "asc"
    /\ desc = <<Entry(s_obj, Outer)>>
    /\ loads = <<<<s_obj>>>>
    /\ env \in [retry : BOOLEAN, registered : {TRUE}, faults : {MaxFaults}]
    /\ faults = 0 /\ failed = <<>> /\ extension_cache = {}

InitX == InitRest /\ (InitObj \/ InitClass \/ InitSessions \/ InitDamaged)

NextX ==
    \/ dump
    \/ _save
    \/ save_new_group
    \/ save_set_attr
    \/ damage
    \/ load_many
    \/ load
    \/ load_result
    \/ retry
    \/ _load_ref
    \/ _load_list_content
    \/ _load_dict_content
    \/ _load_inst
    \/ _load_reduce

SpecX == InitX /\ [][NextX]_vars


(***************************************************************************)
(* Runs with long sequences, with types that have reducers of several      *)
(* kinds, with list items and dict items in the reduce value, with cycles  *)
(* through states and constructor arguments, and with callers that go on   *)
(* with the same Pickler after a dump has failed.                          *)
(***************************************************************************)
\* the length of the longest tuple or list
MaxChildren == 11

\* the caller catches the exception of Pickler.dump(path, obj) and calls
\* dump('/b', obj) on the same Pickler; `failed` keeps the path of the
\* call that raised
redump ==
    /\ err # "" /\ stack # <<>> /\ failed = <<>>
    /\ LET top == calls[CHOOSE i \in 1..Len(calls) :
                           /\ Len(calls[i].path) = 1
                           /\ \A j \in (i + 1)..Len(calls) : Len(calls[j].path) > 1]
       IN /\ failed' = <<[path |-> top.path, left |-> 0]>>
          /\ stack' = <<SaveTask(<<s_b>>, top.obj)>>
    /\ err' = ""
    /\ UNCHANGED <<extension_cache, env, faults, objs, batch, desc, loads, store, paths, calls, memo, dheap, lstack, ret, result, order>>

\* one tuple or list of up to MaxChildren scalars of several types: None,
\* True, 0, 1, 1, 0L, 128L, ...
InitLong ==
    /\ \E k \in {"tuple", "list"}, n \in 2..MaxChildren :
          objs = (Outer :> Container(k, [i \in 1..n |-> i], <<>>))
    /\ batch = FALSE /\ order = "asc"
    /\ desc = <<Entry(s_obj, Outer)>>
    /\ loads = <<<<s_obj>>>>
    /\ InitPlain

\* the shapes of the reduce values of the objects whose dump succeeds
GoodShapes == {"str", "func", "newobj"}

\* one object saved through reduce whose type has or has not a reducer in
\* copy_reg.dispatch_table, a __reduce_ex__ and a __reduce__; or one list,
\* instance or class (with or without a metaclass) that has reducers too
InitDispatch ==
    /\ \/ \E dt \in GoodShapes \cup {""}, rv \in GoodShapes \cup {"none"},
             red \in GoodShapes \cup {""} :
             objs = (Outer :> [ReduceObj(rv, 0, <<>>, <<>>) EXCEPT !.dt = dt, !.red = red])
       \/ \E k \in {"list", "inst"}, dt \in GoodShapes \cup {""}, rv \in GoodShapes :
             objs = (Outer :> [Container(k, <<4, 13>>, <<13, 18>>)
                                 EXCEPT !.dt = dt, !.rv = rv, !.red = rv, !.str = s_Cls,
                                        !.cls = ClsId, !.args = EmptyTuple])
       \/ \E meta \in BOOLEAN, dt \in GoodShapes \cup {""}, rv \in GoodShapes :
             objs = (Outer :> [ClassObj(0, TRUE)
                                 EXCEPT !.meta = meta, !.dt = dt, !.rv = rv, !.red = rv,
                                        !.cls = ClsId, !.args = EmptyTuple])
    /\ batch = FALSE /\ order = "asc"
    /\ desc = <<Entry(s_obj, Outer)>>
    /\ loads = <<<<s_obj>>>>
    /\ InitPlain

\* an object whose reduce value is of any shape, dumped by itself, as an
\* item of a list or as a value of a dict
InitNested ==
    /\ \E rv \in RvShapes, k \in {"list", "dict"}, q \in {<<Inner>>, <<13, Inner>>, <<Inner, 4>>} :
          objs = (Outer :> Container(k, q, SubSeq(GraphKeys, 1, Len(q)))) @@
                 (Inner :> ReduceObj(rv, 0, <<>>, <<>>))
    /\ batch = FALSE /\ order = "asc"
    /\ \E o \in {Outer, Inner} : desc = <<Entry(s_obj, o)>>
    /\ loads = <<<<s_obj>>>>
    /\ InitPlain

\* the objects a reduce value holds: the tuple args, list(listitems) and
\* dict(dictitems)
Args == NAtoms + 3
ListItems == NAtoms + 4
DictItems == NAtoms + 5

\* what the reduce value gives as state: none, a mapping (some with a key
\* that gets a surrogate name, some with the object itself as a value), or
\* a value that is no mapping (the list Inner holds the object itself)
YStates ==
    {[state |-> 0, keys |-> <<>>, items |-> <<>>],
     [state |-> Mapping, keys |-> <<>>, items |-> <<>>],
     [state |-> Mapping, keys |-> <<13>>, items |-> <<Outer>>],
     [state |-> Mapping, keys |-> <<22>>, items |-> <<4>>],
     [state |-> Mapping, keys |-> <<22, 13>>, items |-> <<Outer, 16>>],
     [state |-> 4, keys |-> <<>>, items |-> <<>>],
     [state |-> Inner, keys |-> <<>>, items |-> <<>>]}

\* the heap of the object Outer and of what its reduce value holds
ReduceHeap(o, li, di) ==
    (Outer :> o) @@
    (Inner :> Container("list", <<Outer>>, <<>>)) @@
    (Args :> Container("tuple", <<Outer>>, <<>>)) @@
    (ListItems :> Container("list", IF li = <<>> THEN <<>> ELSE li[1], <<>>)) @@
    (DictItems :> IF di = <<>> THEN Container("dict", <<>>, <<>>) ELSE di[1])

\* one object saved through reduce with args, state, listitems and
\* dictitems that may hold the object itself; or one instance whose state
\* holds it
InitReduce ==
    /\ \/ \E rv \in {"func", "newobj"}, args \in {EmptyTuple, Args}, st \in YStates,
             li \in {<<>>, <<<<4>>>>, <<<<Outer, 13>>>>},
             di \in {<<>>, <<Container("dict", <<4>>, <<13>>)>>,
                     <<Container("dict", <<Outer>>, <<22>>)>>} :
             objs = ReduceHeap([ReduceObj(rv, st.state, st.keys, st.items)
                                  EXCEPT !.args = args,
                                         !.listitems = IF li = <<>> THEN 0 ELSE ListItems,
                                         !.dictitems = IF di = <<>> THEN 0 ELSE DictItems],
                               li, di)
       \/ \E st \in YStates :
             /\ st.state # 0
             /\ objs = ReduceHeap([Container("inst", st.items, st.keys)
                                     EXCEPT !.state = st.state], <<>>, <<>>)
    /\ batch = FALSE /\ order \in {"asc", "desc"}
    /\ desc = <<Entry(s_obj, Outer)>>
    /\ loads = <<<<s_obj>>>>
    /\ InitPlain

\* two entries dumped with one Pickler and loaded with one Unpickler
InitPair ==
    /\ objs \in Graphs(1, 1)
    /\ batch = TRUE /\ order = "asc"
    /\ \E o \in {Outer, Inner} : desc = <<Entry(s_a, Outer), Entry(s_obj, o)>>
    /\ loads = <<<<s_obj>>, <<s_a>>, <<s_obj>>>>
    /\ InitPlain

InitY == InitRest /\ (InitLong \/ InitDispatch \/ InitNested \/ InitReduce \/ InitPair)

NextY ==
    \/ dump
    \/ _save
    \/ save_new_group
    \/ save_set_attr
    \/ redump
    \/ load_many
    \/ load
    \/ load_result
    \/ _load_ref
    \/ _load_list_content
    \/ _load_dict_content
    \/ _load_inst
    \/ _load_reduce

SpecY == InitY /\ [][NextY]_vars

\* the steps of Unpickler.load and of load_many
LoadStep ==
    \/ load_many
    \/ load
    \/ load_result
    \/ _load_ref
    \/ _load_list_content
    \/ _load_dict_content
    \/ _load_inst
    \/ _load_reduce

\* one graph of two containers or one reduce object, with the cycles they
\* can have: through lists, tuples, dicts, instance states, constructor
\* arguments, listitems and dictitems
InitCyclic ==
    /\ \/ objs \in Graphs(1, 1)
       \/ \E rv \in {"func", "newobj"}, args \in {EmptyTuple, Args}, st \in YStates,
             li \in {<<>>, <<<<Outer, 13>>>>},
             di \in {<<>>, <<Container("dict", <<Outer>>, <<22>>)>>} :
             objs = ReduceHeap([ReduceObj(rv, st.state, st.keys, st.items)
                                  EXCEPT !.args = args,
                                         !.listitems = IF li = <<>> THEN 0 ELSE ListItems,
                                         !.dictitems = IF di = <<>> THEN 0 ELSE DictItems],
                               li, di)
    /\ batch = FALSE /\ order = "asc"
    /\ desc = <<Entry(s_obj, Outer)>>
    /\ loads = <<<<s_obj>>>>
    /\ InitPlain

InitT == InitRest /\ InitCyclic

NextT ==
    \/ dump
    \/ _save
    \/ save_new_group
    \/ save_set_attr
    \/ LoadStep

\* the interpreter goes on with a load it has started until the call
\* returns or raises
SpecT == InitT /\ [][NextT]_vars /\ WF_vars(LoadStep)


(***************************************************************************)
(* Vocabulary of the properties.                                           *)
(***************************************************************************)
CallIds == 1..Len(calls)

\* the Pickler that made call i: dump_many uses one, every dump call its own
Session(i) ==
    IF batch THEN 1 ELSE Cardinality({j \in 1..i : Len(calls[j].path) = 1})

\* the object dumped at a top-level path
Source(path) == calls[CHOOSE i \in CallIds : calls[i].path = path].obj

IsPrefix(p, q) == Len(p) <= Len(q) /\ SubSeq(q, 1, Len(p)) = p

\* the containers an object holds
Kids(c) == {x \in DOMAIN objs : InSeq(x, Obj(c).items) \/ InSeq(x, Obj(c).keys)}

RECURSIVE Closure(_, _)
Closure(S, n) ==
    IF n = 0 THEN S ELSE Closure(S \cup UNION {Kids(c) : c \in S}, n - 1)

\* the containers reached from container c by one or more steps
Reach(c) == Closure(Kids(c), Cardinality(DOMAIN objs))

Cyclic == \E c \in DOMAIN objs : c \in Reach(c)

\* source object o and loaded object d are equal in structure: same kind at
\* every position, equal scalars, equal keys and values, equal fields
RECURSIVE StructEq(_, _)
StructEq(o, d) ==
    /\ Obj(o).kind = dheap[d].kind
    /\ Obj(o).num = dheap[d].num
    /\ Obj(o).str = dheap[d].str
    /\ Len(Obj(o).items) = Len(dheap[d].items)
    /\ Len(Obj(o).keys) = Len(dheap[d].keys)
    /\ Obj(o).kind \in {"tuple", "list"} =>
          \A i \in 1..Len(Obj(o).items) : StructEq(Obj(o).items[i], dheap[d].items[i])
    /\ Obj(o).kind \in {"dict", "inst"} =>
          \A i \in 1..Len(Obj(o).keys) : \E j \in 1..Len(dheap[d].keys) :
              /\ StructEq(Obj(o).keys[i], dheap[d].keys[j])
              /\ StructEq(Obj(o).items[i], dheap[d].items[j])
    /\ Obj(o).kind = "inst" => StructEq(Obj(o).cls, dheap[d].cls)

(***************************************************************************)
(* C1.  Round trip: a value nested to a bounded depth (no cycle), dumped   *)
(* and loaded, comes back equal in structure, and neither call fails.      *)
(***************************************************************************)
C1_RoundTrip ==
    ~Cyclic =>
        /\ err = ""
        /\ \A i \in 1..Len(result) : StructEq(Source(result[i].path), result[i].obj)

\* a dict nested in a list has been dumped and loaded
C1_Witness ==
    /\ Done /\ ~Cyclic /\ Len(result) = 1
    /\ Outer \in DOMAIN objs /\ Inner \in DOMAIN objs
    /\ objs[Outer].kind = "list" /\ objs[Inner].kind = "dict"
    /\ objs[Outer].items = <<Inner, 4>> /\ objs[Inner].items = <<4>>


(***************************************************************************)
(* C2.  Shared-object identity: of the positions at which one Pickler      *)
(* meets the same object, the first holds the node written in full, every  *)
(* later one a REF node that targets the first; and one Unpickler returns  *)
(* one and the same object for all of these positions.                     *)
(***************************************************************************)
IsRefTo(path, target) ==
    /\ store[path].node = "Group"
    /\ store[path].pickletype = REF
    /\ store[path].target = target

C2_SharedIdentity ==
    \A i, j \in CallIds :
        (i < j /\ calls[i].obj = calls[j].obj /\ Session(i) = Session(j) /\ ~calls[i].ref) =>
            /\ calls[j].ref
            /\ has_path(store, calls[i].path) => store[calls[i].path].pickletype # REF
            /\ has_path(store, calls[j].path) => IsRefTo(calls[j].path, calls[i].path)
            /\ (LoadIdle /\ calls[i].path \in DOMAIN memo /\ calls[j].path \in DOMAIN memo) =>
                  memo[calls[i].path] = memo[calls[j].path]

(***************************************************************************)
(* C3.  Cycle safety of dump: within one Pickler an object is descended    *)
(* into at most once, every later occurrence writes one REF node and       *)
(* nothing below it, and the calls made and pending never exceed the       *)
(* number of child slots of the graph, so that dump ends.                  *)
(***************************************************************************)
\* the _save calls the handler of object c makes
Slots(c) ==
    Len(Obj(c).items)
    + Cardinality({i \in 1..Len(Obj(c).keys) : ~DirectKey(Obj(c).keys[i])})
    + (IF Obj(c).kind = "inst" THEN 2 ELSE 0)

RECURSIVE SumSlots(_)
SumSlots(S) ==
    IF S = {} THEN 0
    ELSE LET c == CHOOSE x \in S : TRUE IN Slots(c) + SumSlots(S \ {c})

\* the entries of the run: still to dump, being called, called
Entries ==
    Len(desc)
    + Cardinality({k \in 1..Len(stack) : stack[k].op = "save" /\ Len(stack[k].path) = 1})
    + Cardinality({i \in CallIds : Len(calls[i].path) = 1})

CallBudget == Entries + (IF batch THEN 1 ELSE Entries) * SumSlots(DOMAIN objs)

PendingSaves == Cardinality({k \in 1..Len(stack) : stack[k].op = "save"})

C3_DumpDescendsOnce ==
    /\ \A i, j \in CallIds :
          (i < j /\ calls[i].obj = calls[j].obj /\ Session(i) = Session(j)) => calls[j].ref
    /\ \A j \in CallIds :
          (calls[j].ref /\ has_path(store, calls[j].path)) =>
              /\ store[calls[j].path].pickletype = REF
              /\ \A q \in DOMAIN store : IsPrefix(calls[j].path, q) => q = calls[j].path
    /\ Len(calls) + PendingSaves + Len(desc) <= CallBudget

\* a graph with a cycle has been dumped, the inner occurrence as a REF
C3_Witness ==
    /\ Dumped /\ Cyclic
    /\ \E j \in CallIds : calls[j].ref /\ calls[j].obj \in DOMAIN objs
                          /\ calls[j].obj \in Reach(calls[j].obj)

(***************************************************************************)
(* C4.  Cycle safety of load: when the dumped object at a position holds   *)
(* itself, directly or through one container, then the loaded object of    *)
(* that position has the kind of the dumped one and the same chain of      *)
(* children leads from it back to itself.                                  *)
(***************************************************************************)
\* loaded object dk is the loaded form of the (scalar) key k
KeyMatch(k, dk) ==
    /\ Obj(k).kind = dheap[dk].kind
    /\ Obj(k).num = dheap[dk].num
    /\ Obj(k).str = dheap[dk].str

\* the child of loaded object d that stands where child a of source object
\* o stands; 0 if d has no such child
DChild(o, d, a) ==
    IF d = 0 THEN 0
    ELSE IF Obj(o).kind \in {"tuple", "list"}
    THEN IF a <= Len(dheap[d].items) THEN dheap[d].items[a] ELSE 0
    ELSE IF \E j \in 1..Len(dheap[d].keys) : KeyMatch(Obj(o).keys[a], dheap[d].keys[j])
         THEN dheap[d].items[CHOOSE j \in 1..Len(dheap[d].keys) :
                                 KeyMatch(Obj(o).keys[a], dheap[d].keys[j])]
         ELSE 0

C4_LoadKeepsCycle ==
    (LoadIdle /\ err = "") =>
        \A i \in CallIds :
            (/\ ~calls[i].ref
             /\ calls[i].obj \in DOMAIN objs
             /\ calls[i].path \in DOMAIN memo) =>
                LET o == calls[i].obj
                    d == memo[calls[i].path]
                IN /\ dheap[d].kind = Obj(o).kind
                   /\ \A a \in 1..Len(Obj(o).items) :
                         /\ Obj(o).items[a] = o => DChild(o, d, a) = d
                         /\ \A b \in 1..Len(Obj(Obj(o).items[a]).items) :
                               Obj(Obj(o).items[a]).items[b] = o =>
                                   DChild(Obj(o).items[a], DChild(o, d, a), b) = d


(***************************************************************************)
(* C5.  Mapping key fidelity: every dict that is dumped and loaded comes   *)
(* back as a dict with as many entries, in which every key of the dumped   *)
(* dict is found exactly once, with its own kind and value, and is mapped  *)
(* to an object that has the kind, the scalar and the sizes of the value   *)
(* the key had.  The run does not fail.                                    *)
(***************************************************************************)
\* loaded object d is source object o, children left aside
ShallowEq(o, d) ==
    /\ Obj(o).kind = dheap[d].kind
    /\ Obj(o).num = dheap[d].num
    /\ Obj(o).str = dheap[d].str
    /\ Len(Obj(o).items) = Len(dheap[d].items)
    /\ Len(Obj(o).keys) = Len(dheap[d].keys)

C5_KeyFidelity ==
    /\ err = ""
    /\ Done =>
          \A i \in CallIds :
              (/\ ~calls[i].ref
               /\ Obj(calls[i].obj).kind = "dict"
               /\ calls[i].path \in DOMAIN memo) =>
                  LET o == Obj(calls[i].obj)
                      d == dheap[memo[calls[i].path]]
                  IN /\ d.kind = "dict"
                     /\ Len(d.keys) = Len(o.keys)
                     /\ \A a \in 1..Len(o.keys) :
                           /\ Cardinality({j \in 1..Len(d.keys) : KeyMatch(o.keys[a], d.keys[j])}) = 1
                           /\ \E j \in 1..Len(d.keys) :
                                 /\ KeyMatch(o.keys[a], d.keys[j])
                                 /\ ShallowEq(o.items[a], d.items[j])

(***************************************************************************)
(* C6.  Surrogate names: the child names _save_dict_content gives to the   *)
(* keys of a mapping are pairwise different, a key that is not used as its *)
(* own name gets a name _N, that name is not the name of a direct key, and *)
(* the value of every key is saved under the name of the key.              *)
(***************************************************************************)
IsIdxName(n) ==
    /\ Len(n) >= 2
    /\ n[1] = 95
    /\ \A i \in 2..Len(n) : IsDigit(n[i])

Mappings == {i \in CallIds : ~calls[i].ref /\ Obj(calls[i].obj).kind \in {"dict", "inst"}}

C6_SurrogateNames ==
    \A i \in Mappings :
        LET keys == Obj(calls[i].obj).keys
            names == strkeys(keys)
        IN /\ Len(names) = Len(keys)
           /\ Injective(names)
           /\ \A a \in 1..Len(keys) :
                 /\ DirectKey(keys[a]) => names[a] = Obj(keys[a]).str
                 /\ ~DirectKey(keys[a]) =>
                       /\ IsIdxName(names[a])
                       /\ \A b \in 1..Len(keys) :
                             DirectKey(keys[b]) => names[a] # Obj(keys[b]).str
                 /\ (Dumped /\ Session(i) = Session(Len(calls))) =>
                       \E j \in CallIds :
                           /\ calls[j].path = Append(calls[i].path, names[a])
                           /\ calls[j].obj = Obj(calls[i].obj).items[a]

\* a mapping with the direct keys '_0' and '_1' and a surrogate key has
\* been dumped
C6_Witness ==
    /\ Dumped
    /\ \E i \in Mappings :
          /\ InSeq(21, Obj(calls[i].obj).keys)
          /\ InSeq(23, Obj(calls[i].obj).keys)
          /\ \E a \in 1..Len(Obj(calls[i].obj).keys) : ~DirectKey(Obj(calls[i].obj).keys[a])


(***************************************************************************)
(* C7.  Sequence layout.  A dumped tuple or list is "homogeneous of the    *)
(* types T" when it is not empty and its elements all have one type,       *)
(* which is in T.  A homogeneous one is written as one leaf array with an  *)
(* element per item; any other non-empty one as a group with the children  *)
(* _0 .. _n-1.                                                             *)
(***************************************************************************)
Sequences == {i \in CallIds : /\ ~calls[i].ref
                              /\ Obj(calls[i].obj).kind \in {"tuple", "list"}
                              /\ Obj(calls[i].obj).items # <<>>
                              /\ has_path(store, calls[i].path)}

Homogeneous(obj, T) ==
    /\ Obj(Obj(obj).items[1]).kind \in T
    /\ \A a \in 1..Len(Obj(obj).items) :
          Obj(Obj(obj).items[a]).kind = Obj(Obj(obj).items[1]).kind

IsFlat(i) ==
    /\ store[calls[i].path].node = "Array"
    /\ store[calls[i].path].shape = <<Len(Obj(calls[i].obj).items)>>
    /\ \A q \in DOMAIN store : IsPrefix(calls[i].path, q) => q = calls[i].path

IsComposite(i) ==
    /\ store[calls[i].path].node = "Group"
    /\ Dumped =>
          {q \in DOMAIN store : Len(q) = Len(calls[i].path) + 1 /\ IsPrefix(calls[i].path, q)}
          = {Append(calls[i].path, IdxName(a - 1)) : a \in 1..Len(Obj(calls[i].obj).items)}

LayoutRule(T) ==
    err = "" =>
        \A i \in Sequences :
            IF Homogeneous(calls[i].obj, T) THEN IsFlat(i) ELSE IsComposite(i)

\* C7 as the claim states it: the types written flat are the numeric types
\* and the byte string
C7_FlatNumericOrString == LayoutRule({"int", "long", "float", "complex", "str"})

\* C7 as the code has it: the types written flat are int, float and complex;
\* a tuple or list of longs, of bools or of byte strings is a group
C7_FlatIntFloatComplex == LayoutRule({"int", "float", "complex"})

\* a list of a list of ints and an int has been dumped: a group over a leaf
C7_Witness ==
    /\ Dumped
    /\ \E i, j \in Sequences :
          /\ Homogeneous(calls[i].obj, {"int"}) /\ IsFlat(i)
          /\ ~Homogeneous(calls[j].obj, {"int", "float", "complex"}) /\ IsComposite(j)
          /\ calls[i].path = Append(calls[j].path, IdxName(0))

(***************************************************************************)
(* C8.  A tuple or list of byte strings is written as a group tagged with  *)
(* its kind, with one child per element: the leaf of the string, or a REF  *)
(* to the leaf of the same string object; it is loaded as a tuple or list  *)
(* equal to the dumped one, and the run does not fail.                     *)
(***************************************************************************)
StringSeqs == {i \in Sequences : Homogeneous(calls[i].obj, {"str"})}

C8_StringSeqIsGroup ==
    \A i \in StringSeqs :
        LET path == calls[i].path
            obj == calls[i].obj
        IN /\ err = ""
           /\ store[path].node = "Group"
           /\ Dumped =>
                 /\ store[path].pickletype = (IF Obj(obj).kind = "list" THEN LIST ELSE TUPLE)
                 /\ \A a \in 1..Len(Obj(obj).items) :
                       LET child == Append(path, IdxName(a - 1))
                       IN /\ has_path(store, child)
                          /\ \/ /\ store[child].node = "Array"
                                /\ store[child].pickletype = T_STRING
                             \/ \E b \in 1..(a - 1) :
                                   /\ Obj(obj).items[b] = Obj(obj).items[a]
                                   /\ IsRefTo(child, Append(path, IdxName(b - 1)))
           /\ (Done /\ path \in DOMAIN memo) => StructEq(obj, memo[path])

\* the tuple ('a', '\x00', 'a') has been dumped and loaded
C8_Witness ==
    /\ Done /\ DOMAIN objs = {Outer}
    /\ objs[Outer].kind = "tuple" /\ objs[Outer].items = <<13, 12, 13>>
    /\ StringSeqs # {}
    /\ Len(result) = 1 /\ dheap[result[1].obj].kind = "tuple"

(***************************************************************************)
(* C9.  Empty values: the leaf of '', u'', (), [] or 0L carries `empty`    *)
(* over the placeholder block; no node of another value carries `empty`;   *)
(* and a byte string, unicode string, long or empty tuple or list is       *)
(* loaded as the value of its kind that was dumped.                        *)
(***************************************************************************)
IsEmptyValue(obj) ==
    \/ Obj(obj).kind \in {"str", "unicode"} /\ Obj(obj).str = <<>>
    \/ Obj(obj).kind \in {"tuple", "list"} /\ Obj(obj).items = <<>>
    \/ Obj(obj).kind = "long" /\ Obj(obj).num = 0

C9_EmptyFidelity ==
    \A i \in CallIds :
        (~calls[i].ref /\ err = "" /\ has_path(store, calls[i].path)) =>
            LET obj == calls[i].obj
                node == store[calls[i].path]
            IN /\ IsEmptyValue(obj) =>
                     /\ node.node = "Array" /\ node.empty
                     /\ node.dtype = "int8" /\ node.shape = <<1>> /\ node.data = <<0>>
               /\ ~IsEmptyValue(obj) => ~node.empty
               /\ (/\ Done
                   /\ calls[i].path \in DOMAIN memo
                   /\ IsEmptyValue(obj) \/ Obj(obj).kind \in {"str", "unicode", "long"}) =>
                     ShallowEq(obj, memo[calls[i].path])

\* the list ['', '\x00', 0L] has been dumped and loaded
C9_Witness ==
    /\ Done /\ DOMAIN objs = {Outer}
    /\ objs[Outer].kind = "list" /\ objs[Outer].items = <<11, 12, 6>>
    /\ Len(result) = 1 /\ Len(dheap[result[1].obj].items) = 3

(***************************************************************************)
(* C10.  Batch mode: over the entries of one dump_many call an object is   *)
(* written in full where it is met first and as a REF to that node         *)
(* wherever it is met again, in the same entry or in a later one; and      *)
(* after load_many the objects returned hold one and the same object at    *)
(* all of these positions.                                                 *)
(***************************************************************************)
C10_BatchSharing ==
    batch =>
        \A i, j \in CallIds :
            (i < j /\ calls[i].obj = calls[j].obj /\ ~calls[i].ref) =>
                /\ calls[j].ref
                /\ has_path(store, calls[j].path) => IsRefTo(calls[j].path, calls[i].path)
                /\ (Done /\ Len(result) = 2) =>
                      /\ calls[i].path \in DOMAIN memo
                      /\ calls[j].path \in DOMAIN memo
                      /\ memo[calls[i].path] = memo[calls[j].path]

(***************************************************************************)
(* C11.  Session independence: a REF written by a Pickler targets a path   *)
(* that the same Pickler recorded since it was made or cleared, and the    *)
(* first time a Pickler meets an object it writes it in full, whatever     *)
(* earlier Picklers wrote; an Unpickler that was made or cleared after an  *)
(* earlier load decodes the path again and returns a new object.           *)
(***************************************************************************)
C11_SessionIndependence ==
    /\ \A j \in CallIds :
          calls[j].ref <=>
              \E i \in 1..(j - 1) : /\ Session(i) = Session(j)
                                   /\ calls[i].obj = calls[j].obj
    /\ \A j \in CallIds :
          (calls[j].ref /\ Intact /\ has_path(store, calls[j].path)) =>
              \E i \in 1..(j - 1) : /\ Session(i) = Session(j)
                                   /\ calls[i].obj = calls[j].obj
                                   /\ ~calls[i].ref
                                   /\ store[calls[j].path].target = calls[i].path
    /\ ~batch => \A i, j \in 1..Len(result) : i # j => result[i].obj # result[j].obj

\* a container was dumped by two Picklers, in full both times, and its
\* path was loaded by two Unpicklers
C11_Witness ==
    /\ Done /\ ~batch /\ Len(result) = 2
    /\ result[1].path = result[2].path
    /\ dheap[result[1].obj].kind \in {"list", "dict", "inst"}
    /\ \E i, j \in CallIds : /\ i < j /\ calls[i].obj = calls[j].obj
                             /\ calls[i].obj \in DOMAIN objs
                             /\ ~calls[i].ref /\ ~calls[j].ref

(***************************************************************************)
(* C12.  Type-tag coverage.  As stated: after the dump calls have          *)
(* succeeded, every node of the file carries a pickletype that names a     *)
(* decode routine.                                                         *)
(***************************************************************************)
C12_EveryNodeTagged ==
    (Dumped /\ Intact) => \A p \in DOMAIN store : store[p].pickletype \in DecodeTags

(***************************************************************************)
(* C12, amended.  After the dump calls have succeeded, every node carries  *)
(* a pickletype that names a decode routine, except the groups named `__`, *)
(* which carry none.                                                       *)
(***************************************************************************)
C12_TaggedButMetadataGroups ==
    (Dumped /\ Intact) =>
        \A p \in DOMAIN store :
            IF p[Len(p)] = s_sub
            THEN store[p].node = "Group" /\ store[p].pickletype = ""
            ELSE store[p].pickletype \in DecodeTags

\* an object was dumped through reduce, with a state: REDUCE group, `__`
\* group, and tagged nodes below both
C12_Witness ==
    /\ Dumped /\ Intact
    /\ has_path(store, <<s_obj>>) /\ store[<<s_obj>>].pickletype = REDUCE
    /\ has_path(store, <<s_obj, s_sub>>) /\ store[<<s_obj, s_sub>>].pickletype = ""
    /\ has_path(store, <<s_obj, s_sub, s_content>>)
    /\ \E p \in DOMAIN store : store[p].pickletype = REF

(***************************************************************************)
(* C13.  Reserved namespace: _save is never called for a path whose last   *)
(* name is `__`, so no value is written there and the node of that name    *)
(* is a plain group; a mapping key "__" is saved under a surrogate name    *)
(* _N below `__`, and its value at the child _N; and the children of a     *)
(* `__` group are named cls, func, args, listitems, dictitems, content or  *)
(* _N.                                                                     *)
(***************************************************************************)
MetaNames == {s_cls, s_func, s_args, s_content,
              <<108, 105, 115, 116, 105, 116, 101, 109, 115>>,
              <<100, 105, 99, 116, 105, 116, 101, 109, 115>>}

\* the object "__"
ReservedKey == 22

\* the calls that save the content of a mapping with the key "__"
HoldReserved ==
    {i \in CallIds : /\ ~calls[i].ref
                     /\ \/ Obj(calls[i].obj).kind = "dict"
                        \/ Obj(calls[i].obj).state = Mapping
                     /\ InSeq(ReservedKey, Obj(calls[i].obj).keys)}

C13_ReservedNamespace ==
    /\ \A i \in CallIds : calls[i].path[Len(calls[i].path)] # s_sub
    /\ \A p \in DOMAIN store :
          /\ p[Len(p)] = s_sub => store[p].node = "Group" /\ store[p].pickletype = ""
          /\ (Len(p) >= 2 /\ p[Len(p) - 1] = s_sub) =>
                 p[Len(p)] \in MetaNames \/ IsIdxName(p[Len(p)])
    /\ Dumped =>
          \A i \in HoldReserved :
              \E j \in CallIds, n \in {IdxName(k) : k \in 0..MaxKeys} :
                  /\ calls[j].obj = ReservedKey
                  /\ calls[j].path = calls[i].path \o <<s_sub, n>>
                  /\ \E k \in CallIds : calls[k].path = Append(calls[i].path, n)

\* an instance with the fields "__" and "abba" has been dumped
C13_Witness ==
    /\ Dumped /\ Intact
    /\ \E i \in HoldReserved : /\ Obj(calls[i].obj).kind = "inst"
                               /\ InSeq(18, Obj(calls[i].obj).keys)
    /\ has_path(store, <<s_obj, s_sub, s_cls>>)
    /\ has_path(store, <<s_obj, s_sub, IdxName(0)>>)

(***************************************************************************)
(* C14.  Canonical path: as long as the Pickler is not cleared or          *)
(* replaced, no step changes or removes an entry of its identity memo; the *)
(* entry of an object is the path of the first _save call of the session   *)
(* for it, and every REF node written for the object has that path as its  *)
(* target.                                                                 *)
(***************************************************************************)
\* the first call for the object of call j in the session of call j
FirstCall(j) ==
    CHOOSE i \in 1..j :
        /\ Session(i) = Session(j) /\ calls[i].obj = calls[j].obj
        /\ \A k \in 1..(i - 1) : ~(Session(k) = Session(j) /\ calls[k].obj = calls[j].obj)

SameSession == batch \/ desc' = desc

C14_CanonicalPath ==
    /\ [](\A j \in CallIds :
            /\ (Session(j) = Session(Len(calls)) /\ calls[j].obj \in DOMAIN paths) =>
                   paths[calls[j].obj] = calls[FirstCall(j)].path
            /\ (calls[j].ref /\ Intact /\ has_path(store, calls[j].path)) =>
                   store[calls[j].path].target = calls[FirstCall(j)].path)
    /\ [][SameSession =>
            \A o \in DOMAIN paths : o \in DOMAIN paths' /\ paths'[o] = paths[o]]_vars

\* one Pickler has met an object three times: two REF nodes with the path
\* of the first call as target, which is still the entry of the object
C14_Witness ==
    /\ Dumped /\ Intact /\ batch
    /\ \E i, j \in CallIds :
          /\ i < j /\ calls[i].ref /\ calls[j].ref /\ calls[i].obj = calls[j].obj
          /\ store[calls[i].path].target = store[calls[j].path].target
          /\ paths[calls[i].obj] = store[calls[i].path].target

(***************************************************************************)
(* C15.  Instance layout.  As stated: the value of every direct key k of a *)
(* mapping state is written at <path>/k, as a leaf array when it is a      *)
(* scalar, and nothing at <path>/__/content; a state that is no mapping is *)
(* written at <path>/__/content only.                                      *)
(***************************************************************************)
ScalarKinds == {"none", "bool", "int", "long", "float", "complex", "str", "unicode"}

Instances == {i \in CallIds : ~calls[i].ref /\ Obj(calls[i].obj).kind = "inst"}

\* the node at path q is what call j wrote for a value: a REF node to the
\* path of the first call for the value if the Pickler had met it, a leaf
\* array for a scalar and a node of its own tag otherwise
ValueNode(j, q, always_leaf) ==
    IF calls[j].ref /\ ~always_leaf
    THEN IsRefTo(q, calls[FirstCall(j)].path)
    ELSE /\ store[q].pickletype \in DecodeTags \ {REF}
         /\ Obj(calls[j].obj).kind \in ScalarKinds => store[q].node = "Array"

InstanceLayout(always_leaf) ==
    (Dumped /\ Intact) =>
        \A i \in Instances :
            LET o == Obj(calls[i].obj)
                path == calls[i].path
            IN IF o.state = Mapping
               THEN /\ ~has_path(store, path \o <<s_sub, s_content>>)
                    /\ \A a \in 1..Len(o.keys) :
                          DirectKey(o.keys[a]) =>
                              /\ has_path(store, Append(path, Obj(o.keys[a]).str))
                              /\ \E j \in CallIds :
                                    /\ calls[j].path = Append(path, Obj(o.keys[a]).str)
                                    /\ calls[j].obj = o.items[a]
                                    /\ ValueNode(j, calls[j].path, always_leaf)
               ELSE /\ Children(store, path) = {s_sub}
                    /\ Children(store, Append(path, s_sub)) = {s_cls, s_args, s_content}
                    /\ \E j \in CallIds :
                          /\ calls[j].path = path \o <<s_sub, s_content>>
                          /\ calls[j].obj = o.state

C15_ScalarFieldIsLeaf == InstanceLayout(TRUE)

(***************************************************************************)
(* C15, amended.  The value of every direct key k of a mapping state is    *)
(* written at <path>/k: as a REF node if the Pickler has met the value     *)
(* before, else as a leaf array when it is a scalar and as the node of its *)
(* type when it is not; nothing is written at <path>/__/content.  A state  *)
(* that is no mapping is written at <path>/__/content only.                *)
(***************************************************************************)
C15_FieldIsLeafOrRef == InstanceLayout(FALSE)

\* an instance with two fields that hold the same int has been dumped: a
\* leaf at the first field and a REF node at the second
C15_Witness ==
    /\ Dumped /\ Intact
    /\ \E i \in Instances :
          /\ Obj(calls[i].obj).state = Mapping
          /\ Obj(calls[i].obj).keys = <<13, 18>>
          /\ Obj(calls[i].obj).items = <<4, 4>>
          /\ store[Append(calls[i].path, s_a)].node = "Array"
          /\ store[Append(calls[i].path, Obj(18).str)].pickletype = REF

\* an instance whose state is a list has been dumped
C15_WitnessContent ==
    /\ Dumped /\ Intact
    /\ \E i \in Instances :
          /\ Obj(calls[i].obj).state = Inner
          /\ store[calls[i].path \o <<s_sub, s_content>>].pickletype = LIST

(***************************************************************************)
(* C16.  Encoding failures: when _save is called for an object that has no *)
(* reduce, whose reduce gives neither a string nor a tuple, a tuple of     *)
(* fewer than two or more than five elements, args that are no tuple or a  *)
(* func that is not callable, or for a global that is not found under its  *)
(* module and name, dump fails with PicklingError.                         *)
(***************************************************************************)
Malformed(obj) ==
    \/ /\ Obj(obj).kind = "obj"
       /\ Obj(obj).rv \in {"none", "int", "tuple1", "tuple6", "args_list", "args_none", "func_int"}
    \/ /\ Obj(obj).kind = "class" \/ (Obj(obj).kind = "obj" /\ Obj(obj).rv = "str")
       /\ ~Obj(obj).found

C16_FailsWithPicklingError ==
    (calls # <<>> /\ ~calls[Len(calls)].ref /\ Malformed(calls[Len(calls)].obj)) =>
        err = "PicklingError"

(***************************************************************************)
(* C17.  No partial result for a failed node: when load(path) has failed   *)
(* and the caller loads the path again through the same Unpickler, the     *)
(* call does not return the object that the failed call had begun to       *)
(* build.                                                                  *)
(***************************************************************************)
C17_NoPartialResult ==
    \A i \in 1..Len(failed), k \in 1..Len(result) :
        result[k].path = failed[i].path => result[k].obj # failed[i].left

(***************************************************************************)
(* C18.  Missing metadata fails loudly: for a REDUCE node without __/args, *)
(* or with neither __/func nor __/cls, and for an INST node without __/cls *)
(* or without __/args, the Unpickler makes no object: no frame of the node *)
(* gets past the loads of the metadata, the memo gets no entry for it and  *)
(* no load returns a value for it.                                         *)
(***************************************************************************)
Meta(p, name) == has_path(store, p \o <<s_sub, name>>)

MetaMissing(p) ==
    \/ /\ store[p].pickletype = REDUCE
       /\ ~Meta(p, s_args) \/ (~Meta(p, s_func) /\ ~Meta(p, s_cls))
    \/ /\ store[p].pickletype = INST
       /\ ~Meta(p, s_cls) \/ ~Meta(p, s_args)

C18_MissingMetadataFails ==
    \A p \in DOMAIN store :
        MetaMissing(p) =>
            /\ p \notin DOMAIN memo
            /\ \A k \in 1..Len(result) : result[k].path # p
            /\ \A k \in 1..Len(lstack) :
                  lstack[k].path = p => lstack[k].pc \in {"call", "top", "icls", "iargs", "rargs", "rfunc"}

\* the load of a REDUCE node whose __/func was removed has loaded the args
\* and has failed at the constructor
C18_Witness ==
    /\ err = "NoSuchNodeError" /\ Len(lstack) >= 2
    /\ Head(lstack).pc = "call" /\ ~has_path(store, Head(lstack).path)
    /\ lstack[2].pc = "rfunc"
    /\ has_path(store, lstack[2].path) /\ MetaMissing(lstack[2].path)
    /\ Meta(lstack[2].path, s_args)

\* ... and the load of an INST node whose __/args was removed
C18_WitnessInst ==
    /\ err = "NoSuchNodeError" /\ Len(lstack) >= 2
    /\ Head(lstack).pc = "call" /\ ~has_path(store, Head(lstack).path)
    /\ lstack[2].pc = "iargs"
    /\ has_path(store, lstack[2].path) /\ MetaMissing(lstack[2].path)

(***************************************************************************)
(* C19.  Untagged leaf: the load of a leaf array without a pickletype does *)
(* not fail (it returns the data of the node and memoizes it).             *)
(***************************************************************************)
C19_UntaggedLeafRead ==
    (/\ lstack # <<>> /\ Head(lstack).pc = "call"
     /\ Head(lstack).path \notin DOMAIN memo
     /\ get_path(store, Head(lstack).path).node = "Array"
     /\ get_path(store, Head(lstack).path).pickletype = "") => err = ""

(***************************************************************************)
(* C20.  Global reference by registry code: a class registered with an     *)
(* extension code is written as an EXT node that holds the code; the load  *)
(* of an EXT node whose code is registered does not fail and returns the   *)
(* class of that code, whether the process has resolved the code before    *)
(* or not; and no load returns an object for a code that is not            *)
(* registered.                                                             *)
(***************************************************************************)
ExtCode(p) == marshal_loads_i(load_array_str(store[p]))

C20_ExtensionCode ==
    /\ \A i \in CallIds :
          (/\ ~calls[i].ref /\ Obj(calls[i].obj).kind = "class" /\ Obj(calls[i].obj).code # 0
           /\ Intact /\ has_path(store, calls[i].path)) =>
              /\ store[calls[i].path].pickletype = EXT4
              /\ ExtCode(calls[i].path) = Obj(calls[i].obj).code
    /\ (/\ lstack # <<>> /\ Head(lstack).pc = "call"
        /\ Head(lstack).path \notin DOMAIN memo
        /\ get_path(store, Head(lstack).path).pickletype = EXT4
        /\ _inverted_registry_get(ExtCode(Head(lstack).path)) # 0) => err = ""
    /\ \A k \in 1..Len(result) :
          get_path(store, result[k].path).pickletype = EXT4 =>
              /\ _inverted_registry_get(ExtCode(result[k].path)) # 0
              /\ dheap[result[k].obj].kind = "class"
              /\ dheap[result[k].obj].code = ExtCode(result[k].path)


(***************************************************************************)
(* C21.  Element order on decode: when the load of a tuple or list written *)
(* as a group with the children _0 .. _(n-1) has returned, the value has n *)
(* elements, and for every i < n the element at index i is the object      *)
(* loaded from the child _i: the children are taken in numeric order, also *)
(* when n > 10.                                                            *)
(***************************************************************************)
\* the groups tagged TUPLE or LIST whose load has returned
LoadedSeqs ==
    {p \in DOMAIN memo \cap DOMAIN store :
        /\ store[p].node = "Group" /\ store[p].pickletype \in {TUPLE, LIST}
        /\ \A k \in 1..Len(lstack) : lstack[k].path # p}

C21_ElementOrder ==
    \A p \in LoadedSeqs :
        LET n == Cardinality(Children(store, p))
            seq == dheap[memo[p]].items
        IN /\ Len(seq) = n
           /\ \A i \in 0..(n - 1) :
                 LET child == Append(p, IdxName(i))
                 IN /\ child \in DOMAIN store
                    /\ store[child].pickletype \in LeafTags => dheap[seq[i + 1]] = LoadLeaf(store[child])
                    /\ (child \in DOMAIN memo /\ store[child].pickletype \notin {TUPLE, REF})
                          => seq[i + 1] = memo[child]

\* a list or tuple of eleven elements has come back
C21_Witness ==
    /\ Done
    /\ \E p \in LoadedSeqs : Cardinality(Children(store, p)) > 10


(***************************************************************************)
(* C24.  Encoder dispatch order.  For every object that _save was called   *)
(* for while it was not in the memo, once the dump has succeeded: if the   *)
(* exact type is one of the registered kinds the node is the one the       *)
(* routine of that kind writes, whatever reducers the type has; else, if   *)
(* the object is a class, the node is a global reference; else the shape   *)
(* of the node is that of the value of the registered reducer if there is  *)
(* one, else of __reduce_ex__ if there is one, else of __reduce__: a       *)
(* string gives a global reference under that name, and a tuple a REDUCE   *)
(* group with __/func, or with __/cls when the function is __newobj__.     *)
(***************************************************************************)
KindTags(kind) ==
    CASE kind = "none" -> {NONE} [] kind = "bool" -> {BOOL} [] kind = "int" -> {INT}
      [] kind = "long" -> {LONG} [] kind = "float" -> {FLOAT} [] kind = "complex" -> {COMPLEX}
      [] kind = "str" -> {T_STRING} [] kind = "unicode" -> {UNICODE}
      [] kind = "tuple" -> {TUPLE} [] kind = "list" -> {LIST} [] kind = "dict" -> {DICT}
      [] kind = "inst" -> {INST} [] kind = "class" -> {GLOBAL, EXT4}
      [] OTHER -> {}

\* the node is a global reference to `name` of module __main__
IsGlobalRef(node, name, code) ==
    /\ node.node = "Array"
    /\ \/ node.pickletype = GLOBAL /\ code = 0 /\ node.data = s_main \o <<10>> \o name
       \/ node.pickletype = EXT4 /\ code # 0

\* the decomposition the claim's order picks
Decomposition(o) ==
    IF o.dt # "" THEN o.dt
    ELSE IF o.rv \notin {"", "none"} THEN o.rv
    ELSE o.red

C24_DispatchOrder ==
    (Dumped /\ failed = <<>> /\ Intact) =>
        \A i \in CallIds :
            ~calls[i].ref =>
                LET o == Obj(calls[i].obj)
                    path == calls[i].path
                    node == store[path]
                IN IF o.kind # "obj" /\ ~o.meta
                   THEN node.pickletype \in KindTags(o.kind)
                   ELSE IF o.kind = "class"
                   THEN IsGlobalRef(node, o.str, o.code)
                   ELSE IF Decomposition(o) = "str"
                   THEN IsGlobalRef(node, o.str, o.code)
                   ELSE /\ node.pickletype = REDUCE
                        /\ has_path(store, path \o <<s_sub, s_cls>>) <=> Decomposition(o) = "newobj"
                        /\ has_path(store, path \o <<s_sub, s_func>>) <=> Decomposition(o) # "newobj"

\* dumped: a list whose type has a reducer in dispatch_table, a class with
\* a metaclass and a reducer, and an object whose three reducers disagree
C24_Witness ==
    /\ Dumped /\ failed = <<>> /\ Outer \in DOMAIN objs
    /\ \E i \in CallIds : calls[i].obj = Outer /\ ~calls[i].ref
    /\ \/ objs[Outer].kind = "list" /\ objs[Outer].dt = "func"
       \/ objs[Outer].kind = "class" /\ objs[Outer].meta /\ objs[Outer].dt = "func"
       \/ /\ objs[Outer].kind = "obj" /\ objs[Outer].dt = "str"
          /\ objs[Outer].rv = "func" /\ objs[Outer].red = "newobj"


(***************************************************************************)
(* C26.  Store unchanged on a malformed decomposition: when _save was      *)
(* called for an object whose decomposition is neither a string nor a      *)
(* tuple, or is a tuple of fewer than two or more than five elements, or   *)
(* has args that are not a tuple, or has a func that is not callable, the  *)
(* call raises, and neither then nor later does the file hold a node at    *)
(* the path of the call or below it.                                       *)
(***************************************************************************)
BadShapes == {"int", "tuple1", "tuple6", "args_list", "args_none", "func_int"}

\* the calls of _save that got a malformed decomposition
BadCalls ==
    {i \in CallIds : /\ ~calls[i].ref
                     /\ Obj(calls[i].obj).kind = "obj"
                     /\ Decomposition(Obj(calls[i].obj)) \in BadShapes}

C26_NoNodeOnMalformed ==
    \A i \in BadCalls :
        /\ \A q \in DOMAIN store : ~IsPrefix(calls[i].path, q)
        /\ i = Len(calls) /\ failed = <<>> => err \in {"PicklingError", "NameError"}
        /\ err # "" \/ failed # <<>>

\* the dump of a list has failed at its second item, a malformed object,
\* after the list and its first item were written
C26_Witness ==
    /\ err = "PicklingError" /\ BadCalls # {}
    /\ \E i \in BadCalls : Len(calls[i].path) = 2 /\ calls[i].path[2] = IdxName(1)
    /\ <<s_obj, IdxName(0)>> \in DOMAIN store


(***************************************************************************)
(* C22.  Write-once: in a session of one Pickler whose top-level paths are *)
(* distinct and not nested, new_group and save_array are only called for   *)
(* paths at which the file holds no node (the call would raise NodeError), *)
(* and a node that exists is never replaced: no step changes its kind, its *)
(* data or its target.  This holds for every dumped graph, those with      *)
(* surrogate-named state keys, listitems and dictitems included.           *)
(***************************************************************************)
NodeKept ==
    \A q \in DOMAIN store :
        /\ q \in DOMAIN store'
        /\ store'[q].node = store[q].node
        /\ store'[q].data = store[q].data
        /\ store'[q].target = store[q].target

C22_WriteOnce == [](err # "NodeError") /\ [][NodeKept]_vars

\* dumped: an object with listitems, dictitems and a state with a key that
\* has a surrogate name
C22_Witness ==
    /\ Dumped /\ failed = <<>>
    /\ \E q \in DOMAIN store :
          /\ store[q].pickletype = REDUCE
          /\ has_path(store, q \o <<s_sub, s_listitems>>)
          /\ has_path(store, q \o <<s_sub, s_dictitems>>)
          /\ has_path(store, q \o <<s_sub, IdxName(0)>>)

(***************************************************************************)
(* C27.  Back-reference well-formedness: when the dump calls made on one   *)
(* Pickler have all succeeded, the target of every node tagged REF is a    *)
(* path at which the file holds a node, and that node is not tagged REF.   *)
(***************************************************************************)
RefNodes == {q \in DOMAIN store : store[q].pickletype = REF}

C27_RefTargets ==
    (Dumped /\ failed = <<>> /\ Intact) =>
        \A q \in RefNodes :
            /\ store[q].target \in DOMAIN store
            /\ store[store[q].target].pickletype # REF

\* one Pickler has written two REF nodes for one object
C27_Witness ==
    /\ Dumped /\ failed = <<>> /\ batch
    /\ \E q, r \in RefNodes : q # r /\ store[q].target = store[r].target


(***************************************************************************)
(* C23.  Decode ordering for REDUCE and INST nodes: from the moment the    *)
(* object of the node is made until its handler returns, that is while     *)
(* listitems, dictitems, content and the children that hold the state are  *)
(* loaded, the memo holds the object under the path of the node; a load    *)
(* of that path started meanwhile (through a REF) returns that object and  *)
(* makes no new one.                                                       *)
(***************************************************************************)
\* the handler of an INST or REDUCE node has made its object and has not
\* returned yet
PostConstruct(f) ==
    /\ f.path \in DOMAIN store
    /\ store[f.path].pickletype \in {INST, REDUCE}
    /\ f.pc \in {"rmade", "rlist", "rext", "rdict", "rstate", "rcontent", "icontent",
                 "dkeys", "dvals"}

MemoizedEarly ==
    \A k \in 1..Len(lstack) :
        PostConstruct(lstack[k]) =>
            /\ lstack[k].path \in DOMAIN memo
            /\ memo[lstack[k].path] = lstack[k].obj
            /\ dheap[lstack[k].obj].kind \in {"inst", "obj"}

NoSecondObject ==
    \A k \in 2..Len(lstack) :
        (/\ PostConstruct(lstack[k]) /\ err = ""
         /\ Head(lstack).pc = "call" /\ Head(lstack).path = lstack[k].path) =>
            /\ dheap' = dheap
            /\ ret' = lstack[k].obj
            /\ lstack' = Tail(lstack)

C23_MemoBeforeState == [](Intact => MemoizedEarly) /\ [][Intact => NoSecondObject]_vars

\* a REF to the path of a REDUCE node, met in its listitems, has been
\* resolved to the object of the node
C23_Witness ==
    /\ Len(lstack) > 2 /\ Head(lstack).pc = "ref"
    /\ \E k \in 2..Len(lstack) :
          /\ PostConstruct(lstack[k]) /\ lstack[k].pc = "rlist"
          /\ store[Head(lstack).path].target = lstack[k].path
          /\ ret = lstack[k].obj


(***************************************************************************)
(* C25.  State presence round trip for REDUCE nodes.  For an object saved  *)
(* through _save_reduce and loaded back: _setstate has been called for the *)
(* loaded object exactly if the reduce value held a state.  A state that   *)
(* is a mapping, the empty one too, has left has_reduce_content on the     *)
(* group, one direct child per key and no __/content, and the loaded       *)
(* object was given a mapping with as many keys; a state that is no        *)
(* mapping was written to __/content and the loaded object was given the   *)
(* value loaded from there; without a state there is neither the attribute *)
(* nor __/content nor a direct child, and _setstate was not called.        *)
(***************************************************************************)
\* the calls of _save that wrote a REDUCE group which has been loaded
ReduceCalls ==
    {i \in CallIds : /\ ~calls[i].ref
                     /\ calls[i].path \in DOMAIN store
                     /\ store[calls[i].path].pickletype = REDUCE
                     /\ calls[i].path \in DOMAIN memo}

C25_StatePresence ==
    (Done /\ failed = <<>> /\ Intact) =>
        \A i \in ReduceCalls :
            LET o == Obj(calls[i].obj)
                path == calls[i].path
                d == dheap[memo[path]]
                content == path \o <<s_sub, s_content>>
                fields == Children(store, path) \ {s_sub}
            IN /\ d.state # 0 <=> o.state # 0
               /\ o.state = Mapping =>
                     /\ store[path].has_reduce_content
                     /\ ~has_path(store, content)
                     /\ Cardinality(fields) = Len(o.keys)
                     /\ d.state = Mapping /\ Len(d.keys) = Len(o.keys)
               /\ o.state \notin {0, Mapping} =>
                     /\ has_path(store, content)
                     /\ fields = {}
                     /\ d.state = memo[content]
               /\ o.state = 0 =>
                     /\ ~store[path].has_reduce_content
                     /\ ~has_path(store, content)
                     /\ fields = {}
                     /\ d.keys = <<>>

\* loaded back: an object whose reduce value held the empty mapping as
\* state
C25_Witness ==
    /\ Done /\ failed = <<>>
    /\ \E i \in ReduceCalls :
          /\ Obj(calls[i].obj).state = Mapping /\ Obj(calls[i].obj).keys = <<>>
          /\ dheap[memo[calls[i].path]].state = Mapping


(***************************************************************************)
(* C28.  Memo unchanged on a failed dump: when a call of Pickler.dump has  *)
(* raised, every object the Pickler has a path for has a node at that path *)
(* that carries its pickletype; and when the caller has gone on with the   *)
(* same Pickler, the target of every REF node is a node of the file that   *)
(* carries its pickletype.                                                 *)
(***************************************************************************)
Written(path) == path \in DOMAIN store /\ store[path].pickletype # ""

C28_MemoCleanAfterFailure ==
    /\ (err # "" /\ stack # <<>>) => \A o \in DOMAIN paths : Written(paths[o])
    /\ failed # <<>> => \A q \in RefNodes : Written(store[q].target)


(***************************************************************************)
(* C29.  Load is memoized by path: the value a call of load(path) has      *)
(* returned is the value every later load(path) on the same Unpickler      *)
(* returns.  So the loads of one path made by one load_many give one       *)
(* object, the memo holds that object under the path, and the value that   *)
(* the load of a REF node got from load(target) is the value the memo      *)
(* holds for the target when all loads have returned.                      *)
(***************************************************************************)
C29_LoadMemoized ==
    (err = "" /\ LoadIdle /\ Intact /\ failed = <<>>) =>
        /\ batch =>
              \A k \in 1..Len(result) :
                  /\ result[k].path \in DOMAIN memo
                  /\ memo[result[k].path] = result[k].obj
        /\ \A q \in RefNodes \cap DOMAIN memo :
              /\ store[q].target \in DOMAIN memo
              /\ memo[q] = memo[store[q].target]


(***************************************************************************)
(* C30.  Decode termination: every load that has been started returns or  *)
(* raises, and it never runs into the recursion limit of the interpreter,  *)
(* whatever cycles the dumped graph has through lists, tuples, dicts,      *)
(* instance states or constructor arguments.                               *)
(***************************************************************************)
C30_LoadTerminates ==
    /\ [](err # "RuntimeError")
    /\ [](lstack # <<>> => <>(lstack = <<>> \/ err # ""))

\* loaded back: an object that is held by the args of its own reduce value
C30_Witness ==
    /\ Done /\ failed = <<>>
    /\ \E q \in RefNodes \cap DOMAIN memo :
          /\ store[q].target \in DOMAIN store
          /\ store[store[q].target].pickletype = REDUCE
          /\ \E k \in 1..(Len(q) - 1) : q[k] = s_sub /\ q[k + 1] = s_args

=============================================================================
